---------------------------- MODULE Spec2Model ----------------------------
(***************************************************************************)
(* A model of the question-routing core of the film/rental backend:        *)
(*   - SearchAgent.process (title extraction, catalog lookup, intent       *)
(*     classification), src/app/agents/search_agent.py                     *)
(*   - LLMAgent.process (reply-shape normalisation),                       *)
(*     src/app/agents/llm_agent.py                                         *)
(*   - create_handoff_orchestration (tracker, callbacks),                  *)
(*     src/app/agents/orchestration.py                                     *)
(*   - HandoffService.process_question,                                    *)
(*     src/domain/services/handoff_service.py                              *)
(*                                                                         *)
(* Python strings are sequences of one-character strings, so that strip,   *)
(* split, startswith, "in" and the two regular expressions are computed    *)
(* character by character as the code computes them.  The alphabet holds   *)
(* the ASCII letters, the space as the only whitespace, the double quote   *)
(* and the punctuation and digits the questions below use.                 *)
(***************************************************************************)
EXTENDS Integers, Sequences, FiniteSets, TLC

(***************************************************************************)
(* Optional values: Python's None against a value.                         *)
(***************************************************************************)
None == [some |-> FALSE, v |-> <<>>]
Some(x) == [some |-> TRUE, v |-> x]

\* Python truthiness of an Optional[str]: None and "" are falsy.
Truthy(o) == o.some /\ o.v # <<>>

(***************************************************************************)
(* Characters and strings.                                                 *)
(***************************************************************************)
Upper == {"A", "B", "C", "D", "E", "F", "G", "H", "I", "J", "K", "L", "M", "N", "O", "P", "Q", "R", "S", "T", "U", "V", "W", "X", "Y", "Z"}
Lower == {"a", "b", "c", "d", "e", "f", "g", "h", "i", "j", "k", "l", "m", "n", "o", "p", "q", "r", "s", "t", "u", "v", "w", "x", "y", "z"}
UpperSeq == <<"A", "B", "C", "D", "E", "F", "G", "H", "I", "J", "K", "L", "M", "N", "O", "P", "Q", "R", "S", "T", "U", "V", "W", "X", "Y", "Z">>
LowerSeq == <<"a", "b", "c", "d", "e", "f", "g", "h", "i", "j", "k", "l", "m", "n", "o", "p", "q", "r", "s", "t", "u", "v", "w", "x", "y", "z">>
Letters == Upper \cup Lower
DQ == "\""
SP == " "

\* str.lower() on one character, then on a string.
LowerOfUpper == [c \in Upper |-> LowerSeq[CHOOSE i \in 1..Len(UpperSeq) : UpperSeq[i] = c]]
LowerChar(c) == IF c \in Upper THEN LowerOfUpper[c] ELSE c
ToLower(s) == [i \in 1..Len(s) |-> LowerChar(s[i])]

\* \s of the regular expressions, and the separator of str.split().
IsSpace(c) == c = SP

SetMin(S) == CHOOSE x \in S : \A y \in S : x <= y
SetMax(S) == CHOOSE x \in S : \A y \in S : x >= y

\* s[i:].startswith(p), positions counted from 1.
StartsWithAt(s, i, p) ==
    /\ i >= 1
    /\ i + Len(p) - 1 <= Len(s)
    /\ \A k \in 1..Len(p) : s[i + k - 1] = p[k]

\* s.startswith(p)
StartsWith(s, p) == StartsWithAt(s, 1, p)

\* p in s
Contains(s, p) == \E i \in 1..(Len(s) - Len(p) + 1) : StartsWithAt(s, i, p)

\* s.rstrip(chars)
RStrip(s, chars) ==
    LET keep == {k \in 1..Len(s) : s[k] \notin chars}
    IN  IF keep = {} THEN <<>> ELSE SubSeq(s, 1, SetMax(keep))

\* s.strip()
Strip(s) ==
    LET keep == {k \in 1..Len(s) : ~IsSpace(s[k])}
    IN  IF keep = {} THEN <<>> ELSE SubSeq(s, SetMin(keep), SetMax(keep))

\* The first position >= i of s that holds no whitespace (Len(s)+1 if none).
SkipSpaces(s, i) ==
    LET rest == {k \in i..Len(s) : ~IsSpace(s[k])}
    IN  IF rest = {} THEN Len(s) + 1 ELSE SetMin(rest)

\* s.split(): the maximal runs of non-whitespace characters, in order.
WordStarts(s) == {i \in 1..Len(s) : ~IsSpace(s[i]) /\ (i = 1 \/ IsSpace(s[i - 1]))}
WordEnd(s, i) == SetMin({e \in i..Len(s) : e = Len(s) \/ IsSpace(s[e + 1])})
RECURSIVE SplitFrom(_, _)
SplitFrom(s, i) ==
    LET later == {k \in WordStarts(s) : k >= i}
    IN  IF later = {} THEN <<>>
        ELSE LET b == SetMin(later)
                 e == WordEnd(s, b)
             IN  <<SubSeq(s, b, e)>> \o SplitFrom(s, e + 1)
Split(s) == SplitFrom(s, 1)

\* " ".join(words)
RECURSIVE Join(_)
Join(words) ==
    IF words = <<>> THEN <<>>
    ELSE IF Len(words) = 1 THEN words[1]
    ELSE words[1] \o <<SP>> \o Join(Tail(words))

(***************************************************************************)
(* Title extraction, SearchAgent.process lines 143-216.                    *)
(***************************************************************************)
\* word.rstrip('.,!?;:')
trailing_punct == {".", ",", "!", "?", ";", ":"}
word_clean(word) == RStrip(word, trailing_punct)

IsCapitalized_AnyLetter(w) == w # <<>> /\ w[1] \in Letters

\* word_clean and word_clean[0].isupper()
IsCapitalized(w) == w # <<>> /\ w[1] \in Upper

\* re.search(r'"([^"]+)"', question): the leftmost double quote that is
\* followed by at least one character other than a double quote and then a
\* double quote; group(1) is the text between the two.
QuoteOpenings(q) ==
    {i \in 1..Len(q) : /\ q[i] = DQ
                        /\ i + 1 <= Len(q)
                        /\ q[i + 1] # DQ
                        /\ \E j \in (i + 2)..Len(q) : q[j] = DQ}
quoted_match(q) ==
    IF QuoteOpenings(q) = {} THEN None
    ELSE LET i == SetMin(QuoteOpenings(q))
             j == SetMin({k \in (i + 2)..Len(q) : q[k] = DQ})
         IN  Some(SubSeq(q, i + 1, j - 1))

\* The words that end a title in the film/movie pattern.
pattern_stop_words ==
    { <<"r", "e", "n", "t", "a", "l">>,
      <<"r", "a", "t", "e">>,
      <<"i", "s">>,
      <<"t", "h", "e">>,
      <<"w", "h", "a", "t">>,
      <<"a", "b", "o", "u", "t">> }
pattern_punct == {"?", ".", ",", "!", ";", ":"}
kw_film == <<"f", "i", "l", "m">>
kw_movie == <<"m", "o", "v", "i", "e">>

\* (?:film|movie) at position i, case-insensitive: the position after it, or 0.
KeywordEnd(q, i) ==
    IF StartsWithAt(ToLower(q), i, kw_film) THEN i + Len(kw_film)
    ELSE IF StartsWithAt(ToLower(q), i, kw_movie) THEN i + Len(kw_movie)
    ELSE 0

\* (?:\?|\.|$|,|!|;|:|\s+(?:rental|rate|is|the|what|about)) at position t.
TerminatorAt(q, t) ==
    \/ t = Len(q) + 1
    \/ /\ t <= Len(q)
       /\ \/ q[t] \in pattern_punct
          \/ /\ IsSpace(q[t])
             /\ \E w \in pattern_stop_words :
                    StartsWithAt(ToLower(q), SkipSpaces(q, t), w)

\* The ends e of ([A-Z][a-zA-Z\s]+?) starting at p, under re.IGNORECASE: a
\* letter, then one or more letters or spaces, then the terminator.
GroupEnds(q, p) ==
    {e \in (p + 1)..Len(q) :
        /\ \A k \in (p + 1)..e : q[k] \in Letters \/ IsSpace(q[k])
        /\ TerminatorAt(q, e + 1)}

\* The start p of the group for a keyword at i: \s+ takes the whole run of
\* whitespace (a shorter run would leave whitespace where a letter must be).
GroupStart(q, i) ==
    LET k == KeywordEnd(q, i)
    IN  IF k = 0 \/ k > Len(q) \/ ~IsSpace(q[k]) THEN 0
        ELSE LET p == SkipSpaces(q, k)
             IN  IF p <= Len(q) /\ q[p] \in Letters THEN p ELSE 0

PatternStarts(q) ==
    {i \in 1..Len(q) : GroupStart(q, i) # 0 /\ GroupEnds(q, GroupStart(q, i)) # {}}

\* re.search(film_pattern, question, re.IGNORECASE): leftmost start, lazy
\* (shortest) group; film_title = group(1).strip()
film_pattern(q) ==
    IF PatternStarts(q) = {} THEN None
    ELSE LET i == SetMin(PatternStarts(q))
             p == GroupStart(q, i)
             e == SetMin(GroupEnds(q, p))
         IN  Some(Strip(SubSeq(q, p, e)))

skip_words_start ==
    { <<"w", "h", "a", "t">>, <<"i", "s">>, <<"t", "h", "e">>,
      <<"r", "e", "n", "t", "a", "l">>, <<"r", "a", "t", "e">>,
      <<"f", "o", "r">>, <<"f", "i", "l", "m">>, <<"m", "o", "v", "i", "e">>,
      <<"o", "f">>, <<"a">>, <<"a", "n">>, <<"a", "b", "o", "u", "t">>,
      <<"t", "e", "l", "l">>, <<"m", "e">>, <<"t", "h", "i", "s">>,
      <<"t", "h", "a", "t">> }
skip_words_anywhere ==
    { <<"w", "h", "a", "t">>, <<"i", "s">>, <<"t", "h", "e">>,
      <<"r", "e", "n", "t", "a", "l">>, <<"r", "a", "t", "e">>,
      <<"f", "o", "r">>, <<"f", "i", "l", "m">>, <<"m", "o", "v", "i", "e">>,
      <<"o", "f">>, <<"a">>, <<"a", "n">>, <<"a", "b", "o", "u", "t">>,
      <<"t", "e", "l", "l">>, <<"m", "e">>, <<"t", "h", "i", "s">>,
      <<"t", "h", "a", "t">> }

\* A last rule without stop words.
skip_words_single_None == {}

\* Line 209: the stop words of the single-token rule.
skip_words_single ==
    { <<"w", "h", "a", "t">>, <<"i", "s">>, <<"t", "h", "e">>,
      <<"r", "e", "n", "t", "a", "l">>, <<"r", "a", "t", "e">>,
      <<"f", "o", "r">>, <<"f", "i", "l", "m">>, <<"m", "o", "v", "i", "e">>,
      <<"o", "f">>, <<"a">>, <<"a", "n">>, <<"a", "b", "o", "u", "t">>,
      <<"t", "e", "l", "l">>, <<"m", "e">>, <<"i">>, <<"y", "o", "u">>,
      <<"c", "a", "n">>, <<"h", "e", "l", "p">>, <<"t", "h", "i", "s">>,
      <<"t", "h", "a", "t">> }

\* "i < 5" of the leading-run loop (i counts the words from 0).
LeadingWindow == 5
\* "len(word_clean) > 2" of the single-token rule.
MinTokenLen == 2

\* The loop of lines 164-179 from word i (counted from 1) on, with the
\* title words collected so far.
RECURSIVE LeadingRunFrom(_, _, _)
LeadingRunFrom(words, i, title_words) ==
    IF i > Len(words) THEN title_words
    ELSE LET wc == word_clean(words[i])
         IN  IF i - 1 < LeadingWindow /\ IsCapitalized(wc)
             THEN IF ToLower(wc) \notin skip_words_start
                  THEN LeadingRunFrom(words, i + 1, Append(title_words, wc))
                  ELSE IF title_words # <<>> THEN title_words
                  ELSE LeadingRunFrom(words, i + 1, title_words)
             ELSE IF title_words # <<>>
             THEN IF IsCapitalized(wc) /\ ToLower(wc) \notin skip_words_start
                  THEN LeadingRunFrom(words, i + 1, Append(title_words, wc))
                  ELSE title_words
             ELSE LeadingRunFrom(words, i + 1, title_words)

\* Lines 158-182: the capitalized run found from the start of the question.
leading_run(q) ==
    LET title_words == LeadingRunFrom(Split(q), 1, <<>>)
    IN  IF title_words # <<>> THEN Some(Join(title_words)) ELSE None

\* The loop of lines 190-201.
RECURSIVE AnywhereRunFrom(_, _, _)
AnywhereRunFrom(words, i, title_words) ==
    IF i > Len(words) THEN title_words
    ELSE LET wc == word_clean(words[i])
         IN  IF ToLower(wc) \in skip_words_anywhere
             THEN AnywhereRunFrom(words, i + 1, title_words)
             ELSE IF IsCapitalized(wc)
             THEN AnywhereRunFrom(words, i + 1, Append(title_words, wc))
             ELSE IF title_words # <<>> /\ wc # <<>>
             THEN IF ToLower(wc) \notin skip_words_anywhere
                  THEN title_words
                  ELSE AnywhereRunFrom(words, i + 1, title_words)
             ELSE AnywhereRunFrom(words, i + 1, title_words)

\* Lines 185-204: the capitalized run found anywhere in the question.
anywhere_run(q) ==
    LET title_words == AnywhereRunFrom(Split(q), 1, <<>>)
    IN  IF title_words # <<>> THEN Some(Join(title_words)) ELSE None

\* Lines 207-216: the first capitalized token longer than two characters
\* outside the extended stop-word set.
SingleTokens(words) ==
    {i \in 1..Len(words) :
        LET wc == word_clean(words[i])
        IN  /\ IsCapitalized(wc)
            /\ ToLower(wc) \notin skip_words_single
            /\ Len(wc) > MinTokenLen}
single_token(q) ==
    LET words == Split(q)
    IN  IF SingleTokens(words) = {} THEN None
        ELSE Some(word_clean(words[SetMin(SingleTokens(words))]))

(***************************************************************************)
(* Bounds and inputs of the model.                                         *)
(***************************************************************************)
\* The longest question built from the vocabulary, in words.
MaxWords == 3

\* Tokens that exercise every extraction rule: a capitalized stop word, a
\* lower-case stop word, the film keyword, a title, a lower-case word, a
\* quoted title, an empty pair of quotes, a capitalized word with trailing
\* punctuation.
Vocabulary ==
    { <<"W", "h", "a", "t">>, <<"t", "h", "e">>, <<"f", "i", "l", "m">>,
      <<"A", "l", "i", "e", "n">>, <<"a", "l", "i", "e", "n">>,
      <<"\"", "A", "l", "i", "e", "n", "\"">>, <<"\"", "\"">>,
      <<"C", "u", "p", "?">> }

RECURSIVE WordSeqs(_)
WordSeqs(n) ==
    IF n = 0 THEN {<<>>}
    ELSE LET shorter == WordSeqs(n - 1)
         IN  shorter \cup {Append(ws, w) : ws \in {x \in shorter : Len(x) = n - 1},
                                          w \in Vocabulary}
WordQuestions == {Join(ws) : ws \in WordSeqs(MaxWords)}

\* The intent keywords of lines 233-243.
kw_rating == <<"r", "a", "t", "i", "n", "g">>
kw_rated == <<"r", "a", "t", "e", "d">>
kw_rental == <<"r", "e", "n", "t", "a", "l">>
kw_rate == <<"r", "a", "t", "e">>
kw_cost == <<"c", "o", "s", "t">>
kw_price == <<"p", "r", "i", "c", "e">>
kw_category == <<"c", "a", "t", "e", "g", "o", "r", "y">>
IntentKeywords == <<kw_rating, kw_rated, kw_rental, kw_rate, kw_cost, kw_price, kw_category>>

\* A quoted title followed by every combination of the intent keywords.
RECURSIVE KeywordTail(_, _)
KeywordTail(i, picked) ==
    IF i > Len(IntentKeywords) THEN <<>>
    ELSE (IF i \in picked THEN <<SP>> \o IntentKeywords[i] ELSE <<>>)
         \o KeywordTail(i + 1, picked)
KeywordQuestions ==
    {<<"\"", "A", "l", "i", "e", "n", "\"">> \o KeywordTail(1, picked) :
        picked \in SUBSET (1..Len(IntentKeywords))}


\* Questions of the specification's scenarios and of the tests, and questions
\* for the cases the vocabulary does not reach.
ScenarioQuestions ==
    { <<"W", "h", "a", "t", " ", "i", "s", " ", "t", "h", "e", " ", "r", "e", "n", "t", "a", "l", " ", "r", "a", "t", "e", " ", "f", "o", "r", " ", "A", "l", "i", "e", "n", "?">>,
      <<"W", "h", "o", " ", "w", "o", "n", " ", "t", "h", "e", " ", "W", "o", "r", "l", "d", " ", "C", "u", "p", " ", "i", "n", " ", "2", "0", "2", "2", "?">>,
      <<"W", "h", "a", "t", " ", "i", "s", " ", "t", "h", "e", " ", "r", "e", "n", "t", "a", "l", " ", "r", "a", "t", "e", " ", "f", "o", "r", " ", "t", "h", "e", " ", "f", "i", "l", "m", " ", "A", "l", "i", "e", "n", "?">>,
      <<"T", "e", "l", "l", " ", "m", "e", " ", "a", "b", "o", "u", "t", " ", "t", "h", "e", " ", "m", "o", "v", "i", "e", " ", "A", "l", "i", "e", "n">>,
      <<"w", "h", "a", "t", " ", "i", "s", " ", "t", "h", "i", "s", " ", "a", "b", "o", "u", "t", "?">>,
      <<"h", "e", "l", "l", "o", " ", "t", "h", "e", "r", "e">>,
      <<"R", "A", "T", "I", "N", "G", " ", "o", "f", " ", "A", "l", "i", "e", "n", "s", " ", "p", "l", "e", "a", "s", "e">>,
      <<"I", "s", " ", "I", "t", " ", "r", "a", "t", "e", "d", " ", "R", "?">>,
      <<"h", "o", "w", " ", "m", "u", "c", "h", " ", "i", "s", " ", "t", "h", "e", " ", "p", "r", "i", "c", "e", " ", "o", "f", " ", "t", "h", "e", " ", "f", "i", "l", "m", " ", "c", "a", "l", "l", "e", "d", " ", "A", "l", "i", "e", "n", " ", "C", "u", "p">>,
      <<"W", "h", "a", "t", " ", "i", "s", " ", "\"", "\"", " ", "a", "n", "d", " ", "\"", "A", "l", "i", "e", "n", "\"", "?">>,
      <<"w", "h", "a", "t", " ", "d", "i", "d", " ", "y", "o", "u", " ", "t", "h", "i", "n", "k", " ", "o", "f", " ", "i", "t", " ", "w", "h", "e", "n", " ", "A", "l", "i", "e", "n", " ", "c", "a", "m", "e", " ", "o", "u", "t">>,
      <<"I", " ", "C", "a", "n", " ", "H", "e", "l", "p", " ", "Y", "o", "u">>,
      <<"A", "l", "i", "e", "n", " ", "c", "a", "t", "e", "g", "o", "r", "y">>,
      <<"w", "h", "a", "t", " ", "i", "s", " ", "t", "h", "e", " ", "p", "r", "i", "c", "e", " ", "o", "f", " ", "\"", "a", "l", "i", "e", "n", "\"", "?">>,
      <<"w", "h", "a", "t", " ", "i", "s", " ", "t", "h", "e", " ", "c", "o", "s", "t", " ", "o", "f", " ", "i", "t", " ", "f", "o", "r", " ", "A", "l", "i", "e", "n", " ", "o", "f", " ", "t", "h", "e", " ", "C", "u", "p", "?">> }

\* The questions of the requests to the handoff endpoint: a film of the
\* catalog, a title the catalog does not hold, a question without a title,
\* a question that needs a summary.
HandoffQuestions ==
    { <<"W", "h", "a", "t", " ", "i", "s", " ", "t", "h", "e", " ", "r", "e", "n", "t", "a", "l", " ", "r", "a", "t", "e", " ", "f", "o", "r", " ", "A", "l", "i", "e", "n", "?">>,
      <<"W", "h", "o", " ", "w", "o", "n", " ", "t", "h", "e", " ", "W", "o", "r", "l", "d", " ", "C", "u", "p", " ", "i", "n", " ", "2", "0", "2", "2", "?">>,
      <<"h", "e", "l", "l", "o", " ", "t", "h", "e", "r", "e">>,
      <<"T", "e", "l", "l", " ", "m", "e", " ", "a", "b", "o", "u", "t", " ", "t", "h", "e", " ", "m", "o", "v", "i", "e", " ", "A", "l", "i", "e", "n">> }

Questions == WordQuestions \cup KeywordQuestions \cup ScenarioQuestions

(***************************************************************************)
(* The film catalog behind FilmRepository.search_by_title_with_category.   *)
(* rental_rate is the NUMERIC(4,2) column in cents.                        *)
(***************************************************************************)
film_table ==
    { [title |-> <<"A", "l", "i", "e", "n">>, category |-> Some(<<"H", "o", "r", "r", "o", "r">>), rental_rate |-> 299, rating |-> Some(<<"R">>)],
      [title |-> <<"A", "l", "i", "e", "n", "s">>, category |-> None, rental_rate |-> 450, rating |-> None] }


\* A match that does not look at the title.
TitleMatches_Any(title) == film_table

\* WHERE LOWER(film.title) LIKE LOWER('%' || title || '%'): a case-insensitive
\* substring match (the alphabet holds neither % nor _).
TitleMatches(title) ==
    {row \in film_table : Contains(ToLower(row.title), ToLower(title))}

\* The dict built from a row (film_repository.py lines 351-358).
FilmInfo(row) ==
    [title |-> row.title,
     category |-> IF Truthy(row.category) THEN row.category.v
                  ELSE <<"U", "n", "k", "n", "o", "w", "n">>,
     rental_rate |-> row.rental_rate,
     rating |-> IF Truthy(row.rating) THEN row.rating ELSE None]

\* The outcomes of one call of search_by_title_with_category: the query
\* fails, or LIMIT 1 of an unordered query yields any one matching row, or
\* no row matches.
search_by_title_with_category(title) ==
    {[raised |-> TRUE, info |-> None]}
    \cup (IF TitleMatches(title) = {}
          THEN {[raised |-> FALSE, info |-> None]}
          ELSE {[raised |-> FALSE, info |-> Some(FilmInfo(row))] : row \in TitleMatches(title)})

\* f"{rental_rate:.2f}" of a rate given in cents.
DigitChars == <<"0", "1", "2", "3", "4", "5", "6", "7", "8", "9">>
RECURSIVE Decimal(_)
Decimal(n) ==
    IF n < 10 THEN <<DigitChars[n + 1]>>
    ELSE Decimal(n \div 10) \o <<DigitChars[(n % 10) + 1]>>
\* A rate printed with the digits it needs, not with two decimals.
FormatRate_Shortest(cents) ==
    Decimal(cents \div 100) \o <<".">>
    \o (IF cents % 10 = 0 THEN <<DigitChars[((cents % 100) \div 10) + 1]>>
        ELSE <<DigitChars[((cents % 100) \div 10) + 1], DigitChars[(cents % 10) + 1]>>)

\* f"{rental_rate:.2f}": two decimals, always.
FormatRate(cents) ==
    Decimal(cents \div 100) \o <<".">>
    \o <<DigitChars[((cents % 100) \div 10) + 1], DigitChars[(cents % 10) + 1]>>

\* The fixed answer sentences of lines 237-245.
rating_sentence(info) ==
    IF Truthy(info.rating)
    THEN info.title \o <<" ", "i", "s", " ", "r", "a", "t", "e", "d", " ">> \o info.rating.v \o <<".">>
    ELSE info.title \o <<" ", "d", "o", "e", "s", " ", "n", "o", "t", " ", "h", "a", "v", "e", " ", "a", " ", "r", "a", "t", "i", "n", "g", " ", "a", "v", "a", "i", "l", "a", "b", "l", "e", ".">>
rental_sentence(info) ==
    info.title \o <<" ", "r", "e", "n", "t", "s", " ", "f", "o", "r", " ", "$">>
    \o FormatRate(info.rental_rate) \o <<".">>
category_sentence(info) ==
    info.title \o <<" ", "i", "s", " ", "i", "n", " ", "t", "h", "e", " ">>
    \o info.category \o <<" ", "c", "a", "t", "e", "g", "o", "r", "y", ".">>

\* FilmSearchPlugin.search_film, src/app/agents/film_search_plugin.py lines
\* 56-61: the sentence of the plugin for a film that was found,
\* f"{title} ({category}) rents for ${rental_rate:.2f}.".
search_film_sentence(info) ==
    info.title \o <<" ", "(">> \o info.category \o <<")">>
    \o <<" ", "r", "e", "n", "t", "s", " ", "f", "o", "r", " ", "$">> \o FormatRate(info.rental_rate) \o <<".">>

\* A rating test that forgets the second keyword.
asks_rating_OneKeyword(q) == Contains(ToLower(q), kw_rating)

\* The branch conditions of lines 233, 240 and 243 on question.lower().
asks_rating(q) ==
    Contains(ToLower(q), kw_rating) \/ Contains(ToLower(q), kw_rated)
asks_rental(q) ==
    \/ Contains(ToLower(q), kw_rental)
    \/ (Contains(ToLower(q), kw_rate) /\ Contains(ToLower(q), kw_rental))
    \/ Contains(ToLower(q), kw_cost)
    \/ Contains(ToLower(q), kw_price)
asks_category(q) == Contains(ToLower(q), kw_category)

\* The outcomes of _generate_film_summary (lines 49-124): the collaborator's
\* text, stripped, possibly empty; or its exception, logged and re-raised.
SummaryTexts ==
    { <<>>,
      <<"A", " ", "c", "l", "a", "s", "s", "i", "c", " ", "o", "f", " ", "i", "t", "s", " ", "k", "i", "n", "d", ".">> }
generate_film_summary ==
    {[raised |-> TRUE, text |-> <<>>]}
    \cup {[raised |-> FALSE, text |-> t] : t \in SummaryTexts}

(***************************************************************************)
(* LLMAgent.process, src/app/agents/llm_agent.py lines 36-158.             *)
(*                                                                         *)
(* A reply of the collaborator is a Python object.  An attribute is absent *)
(* (hasattr is False), None, or a string; an object is the record of the   *)
(* attributes the code probes.                                             *)
(***************************************************************************)
Absent == [has |-> FALSE, v |-> None]
IsNone == [has |-> TRUE, v |-> None]
Str(s) == [has |-> TRUE, v |-> Some(s)]

\* hasattr(x, 'a') and x.a
AttrTruthy(a) == a.has /\ Truthy(a.v)
\* str(x.a)
StrOf(a) == IF a.v.some THEN a.v.v ELSE <<"N", "o", "n", "e">>

\* The texts the attributes of a reply hold.
text_items == <<"i", "t", "e", "m">>
text_content == <<"c", "o", "n", "t", "e", "n", "t">>
text_message == <<"m", "e", "s", "s", "a", "g", "e">>
text_choice == <<"c", "h", "o", "i", "c", "e">>
text_text == <<"t", "e", "x", "t">>
repr_object == <<"<", "o", "b", "j", "e", "c", "t", ">">>
repr_response == <<"<", "r", "e", "s", "p", "o", "n", "s", "e", ">">>

\* .items: absent, a list of TextContent-like parts, or (on a dict) the
\* bound method dict.items, which is truthy and not iterable.
ItemsValues ==
    { [has |-> FALSE, iterable |-> TRUE, elems |-> <<>>],
      [has |-> TRUE, iterable |-> TRUE, elems |-> <<>>],
      [has |-> TRUE, iterable |-> TRUE, elems |-> <<[text |-> Absent]>>],
      [has |-> TRUE, iterable |-> TRUE, elems |-> <<[text |-> Str(<<>>)], [text |-> Str(text_items)]>>],
      [has |-> TRUE, iterable |-> FALSE, elems |-> <<>>] }

\* .inner_content: absent, or an object whose .choices is absent or a list
\* of choices, each with a .message (with or without .content) or a .text.
NoMessage == [has |-> FALSE, content |-> Absent]
ChoiceValues ==
    { [message |-> [has |-> TRUE, content |-> Str(text_message)], text |-> Absent],
      [message |-> [has |-> TRUE, content |-> IsNone], text |-> Absent],
      [message |-> [has |-> TRUE, content |-> Str(<<>>)], text |-> Str(text_choice)],
      [message |-> [has |-> TRUE, content |-> Absent], text |-> Absent],
      [message |-> NoMessage, text |-> Str(text_choice)],
      [message |-> NoMessage, text |-> Absent] }
InnerValues ==
    { [has |-> FALSE, choices |-> [has |-> FALSE, elems |-> <<>>]],
      [has |-> TRUE, choices |-> [has |-> FALSE, elems |-> <<>>]],
      [has |-> TRUE, choices |-> [has |-> TRUE, elems |-> <<>>]] }
    \cup {[has |-> TRUE, choices |-> [has |-> TRUE, elems |-> <<c>>]] : c \in ChoiceValues}

AttrValues(t) == {Absent, IsNone, Str(<<>>), Str(t)}

Objects ==
    [items : ItemsValues, content : AttrValues(text_content),
     inner_content : InnerValues, text : AttrValues(text_text)]

\* Objects without inner_content, for the lists of two.
PlainObjects ==
    {o \in Objects : /\ ~o.inner_content.has
                     /\ o.items.iterable
                     /\ Len(o.items.elems) # 1
                     /\ o.content # IsNone
                     /\ o.text \in {Absent, Str(text_text)}}

\* The outcomes of kernel.invoke: an exception, a response without .value,
\* a response whose value is one object, or a list of none, one or two.
Replies ==
    {[raised |-> TRUE, has_value |-> FALSE, is_list |-> FALSE, elems |-> <<>>]}
    \cup {[raised |-> FALSE, has_value |-> FALSE, is_list |-> FALSE, elems |-> <<>>]}
    \cup {[raised |-> FALSE, has_value |-> TRUE, is_list |-> FALSE, elems |-> <<o>>] : o \in Objects}
    \cup {[raised |-> FALSE, has_value |-> TRUE, is_list |-> TRUE, elems |-> <<>>]}
    \cup {[raised |-> FALSE, has_value |-> TRUE, is_list |-> TRUE, elems |-> <<o>>] : o \in Objects}
    \cup {[raised |-> FALSE, has_value |-> TRUE, is_list |-> TRUE, elems |-> <<o1, o2>>] :
              o1 \in PlainObjects, o2 \in PlainObjects}

\* The result of a piece of the extraction: the answer so far, whether the
\* loop over the list breaks, whether a TypeError was raised.
Extracted(answer, stop, raised) == [answer |-> answer, stop |-> stop, raised |-> raised]

\* Lines 85-88 and 118-121: the first part of .items with a truthy .text.
FirstItemText(items) ==
    LET hits == {i \in 1..Len(items.elems) : AttrTruthy(items.elems[i].text)}
    IN  IF hits = {} THEN None ELSE Some(StrOf(items.elems[SetMin(hits)].text))

\* hasattr(x, 'items') and x.items
ItemsTruthy(items) == items.has /\ (~items.iterable \/ items.elems # <<>>)

\* hasattr(inner, 'choices') and inner.choices
ChoicesTruthy(inner) == inner.has /\ inner.choices.has /\ inner.choices.elems # <<>>

\* Lines 84-112: the body of "for item in response_value" on one item.
list_item(item) ==
    IF ItemsTruthy(item.items) /\ ~item.items.iterable
    THEN Extracted(None, TRUE, TRUE)
    ELSE LET a1 == IF ItemsTruthy(item.items) THEN FirstItemText(item.items) ELSE None
         IN  IF Truthy(a1) THEN Extracted(a1, TRUE, FALSE)
             ELSE IF AttrTruthy(item.content)
             THEN Extracted(Some(StrOf(item.content)), TRUE, FALSE)
             ELSE IF ChoicesTruthy(item.inner_content)
                     /\ item.inner_content.choices.elems[1].message.has
                     /\ item.inner_content.choices.elems[1].message.content.has
             THEN Extracted(Some(StrOf(item.inner_content.choices.elems[1].message.content)), TRUE, FALSE)
             ELSE IF ChoicesTruthy(item.inner_content)
                     /\ item.inner_content.choices.elems[1].text.has
             THEN Extracted(Some(StrOf(item.inner_content.choices.elems[1].text)), TRUE, FALSE)
             ELSE IF AttrTruthy(item.text)
             THEN Extracted(Some(StrOf(item.text)), TRUE, FALSE)
             ELSE Extracted(a1, FALSE, FALSE)

\* Lines 81-112: the loop over a list reply.
RECURSIVE list_loop(_, _)
list_loop(elems, i) ==
    IF i > Len(elems) THEN Extracted(None, FALSE, FALSE)
    ELSE LET r == list_item(elems[i])
         IN  IF r.raised \/ r.stop THEN r ELSE list_loop(elems, i + 1)

\* Lines 115-139: a reply that is one object.
single_object(o) ==
    IF ItemsTruthy(o.items) /\ ~o.items.iterable
    THEN Extracted(None, TRUE, TRUE)
    ELSE LET a1 == IF ItemsTruthy(o.items) THEN FirstItemText(o.items) ELSE None
             a2 == IF ~Truthy(a1) /\ AttrTruthy(o.content)
                   THEN Some(StrOf(o.content)) ELSE a1
             c  == o.inner_content.choices.elems[1]
             a3 == IF ~Truthy(a2) /\ o.inner_content.has /\ ChoicesTruthy(o.inner_content)
                   THEN IF c.message.has /\ c.message.content.has
                        THEN Some(StrOf(c.message.content))
                        ELSE IF c.text.has THEN Some(StrOf(c.text)) ELSE a2
                   ELSE a2
             a4 == IF ~Truthy(a3) /\ AttrTruthy(o.text)
                   THEN Some(StrOf(o.text)) ELSE a3
         IN  Extracted(a4, FALSE, FALSE)

\* Lines 141-143: "if not answer": str(response_value), or str of the first
\* element of a list, or "" for an empty list.
last_resort(reply, answer) ==
    IF Truthy(answer) THEN answer
    ELSE IF ~reply.is_list THEN Some(repr_object)
    ELSE IF reply.elems # <<>> THEN Some(repr_object)
    ELSE Some(<<>>)

\* Lines 75-145: the answer taken from a reply, or the TypeError raised on
\* the way.
llm_answer(reply) ==
    IF ~reply.has_value THEN Extracted(Some(repr_response), FALSE, FALSE)
    ELSE LET r == IF reply.is_list THEN list_loop(reply.elems, 1)
                  ELSE single_object(reply.elems[1])
         IN  IF r.raised THEN r
             ELSE Extracted(last_resort(reply, r.answer), FALSE, FALSE)

\* str(e) of the exceptions.
error_invoke == <<"s", "e", "r", "v", "i", "c", "e", " ", "u", "n", "a", "v", "a", "i", "l", "a", "b", "l", "e">>
error_not_iterable == <<"'", "b", "u", "i", "l", "t", "i", "n", "_", "f", "u", "n", "c", "t", "i", "o", "n", "_", "o", "r", "_", "m", "e", "t", "h", "o", "d", "'", " ", "o", "b", "j", "e", "c", "t", " ", "i", "s", " ", "n", "o", "t", " ", "i", "t", "e", "r", "a", "b", "l", "e">>
error_add_function == <<"c", "a", "n", "n", "o", "t", " ", "a", "d", "d", " ", "f", "u", "n", "c", "t", "i", "o", "n">>
sorry_prefix == <<"I", "'", "m", " ", "s", "o", "r", "r", "y", ",", " ", "I", " ", "e", "n", "c", "o", "u", "n", "t", "e", "r", "e", "d", " ", "a", "n", " ", "e", "r", "r", "o", "r", ":", " ">>

\* The name under which the prompt function is registered in the kernel.
answer_function == "General.answer_question"

(***************************************************************************)
(* AIService.stream_chat, src/domain/services/ai_service.py lines 50-136.  *)
(*                                                                         *)
(* A chunk of kernel.invoke_stream is a list of items, a str, or an object *)
(* with the attributes the code probes.  An item is a str or an object     *)
(* with content, text and value and its str().                             *)
(***************************************************************************)
text_value == <<"v", "a", "l", "u", "e">>
text_chunk == <<"c", "h", "u", "n", "k">>
text_delta == <<"d", "e", "l", "t", "a">>
blank == <<" ">>

StrItem(t) == [is_str |-> TRUE, s |-> t, content |-> Absent, text |-> Absent, value |-> Absent]
StreamItems ==
    {StrItem(t) : t \in {<<>>, text_items}}
    \cup [is_str : {FALSE}, s : {<<>>, blank, repr_object},
          content : AttrValues(text_content),
          text : {Absent, Str(<<>>), Str(text_text)},
          value : {Absent, Str(text_value)}]
\* The first items of the lists of two: those without text, and a str.
FirstItems ==
    {item \in StreamItems :
        \/ item.is_str
        \/ /\ ~AttrTruthy(item.content)
           /\ ~AttrTruthy(item.text)
           /\ ~AttrTruthy(item.value)
           /\ item.content \in {Absent, IsNone}
           /\ item.text = Absent}
\* The second items of the lists of two.
SecondItems ==
    { StrItem(text_items),
      [is_str |-> FALSE, s |-> repr_object, content |-> Absent, text |-> Absent, value |-> Absent],
      [is_str |-> FALSE, s |-> <<>>, content |-> Str(text_content), text |-> Absent, value |-> Absent] }

\* A choice: .delta absent or an object with or without .content, and .text.
NoDelta == [has |-> FALSE, content |-> Absent]
StreamChoices ==
    { [delta |-> [has |-> TRUE, content |-> Str(text_delta)], text |-> Absent],
      [delta |-> [has |-> TRUE, content |-> IsNone], text |-> Str(text_choice)],
      [delta |-> [has |-> TRUE, content |-> Str(<<>>)], text |-> Absent],
      [delta |-> [has |-> TRUE, content |-> Absent], text |-> Str(text_choice)],
      [delta |-> NoDelta, text |-> Str(text_choice)],
      [delta |-> NoDelta, text |-> Str(<<>>)],
      [delta |-> NoDelta, text |-> IsNone],
      [delta |-> NoDelta, text |-> Absent] }
\* The second choices of the lists of two.
SecondChoices ==
    { [delta |-> [has |-> TRUE, content |-> Str(text_delta)], text |-> Absent],
      [delta |-> NoDelta, text |-> Str(text_choice)],
      [delta |-> NoDelta, text |-> Absent] }
\* .choices: absent, a list of up to two choices, or a truthy value that is
\* no list.
ChoicesValues ==
    { [has |-> FALSE, iterable |-> TRUE, elems |-> <<>>],
      [has |-> TRUE, iterable |-> TRUE, elems |-> <<>>],
      [has |-> TRUE, iterable |-> FALSE, elems |-> <<>>] }
    \cup {[has |-> TRUE, iterable |-> TRUE, elems |-> <<c>>] : c \in StreamChoices}
    \cup {[has |-> TRUE, iterable |-> TRUE, elems |-> <<c, d>>] :
              c \in StreamChoices, d \in SecondChoices}

NoChoices == [has |-> FALSE, iterable |-> TRUE, elems |-> <<>>]
ListChunk(items) ==
    [kind |-> "list", items |-> items, s |-> <<>>,
     content |-> Absent, value |-> Absent, text |-> Absent, choices |-> NoChoices]
StrChunk(t) ==
    [kind |-> "str", items |-> <<>>, s |-> t,
     content |-> Absent, value |-> Absent, text |-> Absent, choices |-> NoChoices]
StreamChunks ==
    {ListChunk(<<>>)}
    \cup {ListChunk(<<i>>) : i \in StreamItems}
    \cup {ListChunk(<<i, j>>) : i \in FirstItems, j \in SecondItems}
    \cup {StrChunk(t) : t \in {<<>>, text_chunk}}
    \cup [kind : {"object"}, items : {<<>>}, s : {<<>>},
          content : AttrValues(text_content),
          value : {Absent, Str(text_value)},
          text : {Absent, Str(text_text)},
          choices : {NoChoices}]
    \cup [kind : {"object"}, items : {<<>>}, s : {<<>>},
          content : {Absent, Str(<<>>)},
          value : {Absent},
          text : {Absent},
          choices : ChoicesValues]

\* What a yielded chunk is made from when it is the apology, and before any
\* chunk is yielded.
FromFailure == [kind |-> "failure"]
NoOrigin == [kind |-> "none"]

\* chunk_text after a piece of the extraction, whether the loop breaks, and
\* whether an exception was raised.
Found(chunk_text, stop, raised) == [chunk_text |-> chunk_text, stop |-> stop, raised |-> raised]

\* Lines 85-102: the body of "for item in chunk" on one item.
stream_item(item) ==
    IF item.is_str THEN Found(Some(item.s), TRUE, FALSE)
    ELSE IF AttrTruthy(item.content) THEN Found(Some(StrOf(item.content)), TRUE, FALSE)
    ELSE IF AttrTruthy(item.text) THEN Found(Some(StrOf(item.text)), TRUE, FALSE)
    ELSE IF AttrTruthy(item.value) THEN Found(Some(StrOf(item.value)), TRUE, FALSE)
    ELSE IF item.s # <<>> /\ Strip(item.s) # <<>> THEN Found(Some(item.s), TRUE, FALSE)
    ELSE Found(None, FALSE, FALSE)

\* Lines 82-102: the loop over a list chunk.
RECURSIVE stream_list(_, _)
stream_list(items, i) ==
    IF i > Len(items) THEN Found(None, FALSE, FALSE)
    ELSE LET r == stream_item(items[i])
         IN  IF r.stop THEN r ELSE stream_list(items, i + 1)

\* Lines 112-118: the loop over chunk.choices; chunk_text keeps its value
\* over a choice that has neither attribute.
RECURSIVE stream_choices(_, _, _)
stream_choices(elems, i, chunk_text) ==
    IF i > Len(elems) THEN chunk_text
    ELSE LET c == elems[i]
             t == IF c.delta.has /\ c.delta.content.has
                  THEN (IF AttrTruthy(c.delta.content)
                        THEN Some(StrOf(c.delta.content)) ELSE None)
                  ELSE IF c.text.has THEN Some(StrOf(c.text))
                  ELSE chunk_text
         IN  IF Truthy(t) THEN t ELSE stream_choices(elems, i + 1, t)

\* "hasattr(chunk, 'choices') and chunk.choices"
StreamChoicesTruthy(choices) == choices.has /\ (~choices.iterable \/ choices.elems # <<>>)

\* Lines 79-120: chunk_text of one chunk.
chunk_text_of(chunk) ==
    IF chunk.kind = "list" THEN stream_list(chunk.items, 1)
    ELSE IF chunk.kind = "str" THEN Found(Some(chunk.s), FALSE, FALSE)
    ELSE IF AttrTruthy(chunk.content) THEN Found(Some(StrOf(chunk.content)), FALSE, FALSE)
    ELSE IF AttrTruthy(chunk.value) THEN Found(Some(StrOf(chunk.value)), FALSE, FALSE)
    ELSE IF AttrTruthy(chunk.text) THEN Found(Some(StrOf(chunk.text)), FALSE, FALSE)
    ELSE IF StreamChoicesTruthy(chunk.choices)
    THEN IF ~chunk.choices.iterable THEN Found(None, FALSE, TRUE)
         ELSE Found(stream_choices(chunk.choices.elems, 1, None), FALSE, FALSE)
    ELSE Found(None, FALSE, FALSE)

\* str(e) of the exceptions of the stream.
error_no_plugin == <<"p", "l", "u", "g", "i", "n", " ", "n", "o", "t", " ", "f", "o", "u", "n", "d">>
error_stream == <<"c", "o", "n", "n", "e", "c", "t", "i", "o", "n", " ", "l", "o", "s", "t">>
error_choices == <<"'", "i", "n", "t", "'", " ", "o", "b", "j", "e", "c", "t", " ", "i", "s", " ", "n", "o", "t", " ", "i", "t", "e", "r", "a", "b", "l", "e">>
StreamErrors == {error_no_plugin, error_stream, error_choices}

\* A handler that ends the stream without a chunk.
stream_on_exception_Silent(chunks, message) == chunks

\* Lines 131-136: the chunks after "except Exception as e".
stream_on_exception(chunks, message) == Append(chunks, sorry_prefix \o message)

(***************************************************************************)
(* create_handoff_orchestration, src/app/agents/orchestration.py.          *)
(***************************************************************************)
SearchAgentName == "SearchAgent"
LLMAgentName == "LLMAgent"
Unknown == "Unknown"
\* A message whose name is None or empty.
NoName == ""

\* Line 229: members=[search_agent, llm_agent]; the first one starts.
members == <<SearchAgentName, LLMAgentName>>
Members == {members[i] : i \in 1..Len(members)}

\* Lines 46-71: both directions are configured; the description of the
\* second asks the model not to use it.
handoffs == {<<SearchAgentName, LLMAgentName>>, <<LLMAgentName, SearchAgentName>>}

\* Lines 74-80.
new_agent_tracker ==
    [last_agent |-> SearchAgentName,
     response_received |-> FALSE,
     human_response_calls |-> 0,
     last_agent_response |-> None,
     should_stop |-> FALSE]

\* The control texts the callback refuses to store, lines 141-144.
task_completed == <<"T", "a", "s", "k", " ", "i", "s", " ", "c", "o", "m", "p", "l", "e", "t", "e", "d">>
conversation_complete == <<"_", "_", "C", "O", "N", "V", "E", "R", "S", "A", "T", "I", "O", "N", "_", "C", "O", "M", "P", "L", "E", "T", "E", "_", "_">>
handoff_prefix == <<"H", "a", "n", "d", "o", "f", "f", "-">>
handoff_complete_task == <<"H", "a", "n", "d", "o", "f", "f", "-", "c", "o", "m", "p", "l", "e", "t", "e", "_", "t", "a", "s", "k">>

\* A message of the conversation: ChatMessageContent with a name, a role, and
\* the text in .content, in .text or in the parts of .items.
Part(text, content) == [text |-> text, content |-> content]
Message(name, role, content, text, items) ==
    [name |-> name, role |-> role, content |-> content, text |-> text, items |-> items]

\* Lines 116-122 of the callback: the first part with a truthy .text or, else,
\* a truthy .content.
RECURSIVE first_part_text(_, _)
first_part_text(items, i) ==
    IF i > Len(items) THEN None
    ELSE IF AttrTruthy(items[i].text) THEN Some(Strip(StrOf(items[i].text)))
    ELSE IF AttrTruthy(items[i].content) THEN Some(Strip(StrOf(items[i].content)))
    ELSE first_part_text(items, i + 1)

\* Lines 89-130: the content of a message, stripped.
message_content(message) ==
    LET c1 == IF AttrTruthy(message.content)
              THEN Some(Strip(StrOf(message.content))) ELSE None
        c2 == IF ~Truthy(c1) /\ AttrTruthy(message.text)
              THEN Some(Strip(StrOf(message.text))) ELSE c1
        c3 == IF ~Truthy(c2) /\ message.items # <<>>
              THEN LET f == first_part_text(message.items, 1)
                   IN  IF f.some THEN f ELSE c2
              ELSE c2
    IN  c3

\* Lines 133-136.
role_is_assistant(message) == message.role = "assistant"

\* Lines 138-144: the message is an answer of an agent.
is_agent_response(message) ==
    LET content == message_content(message)
    IN  /\ role_is_assistant(message)
        /\ Truthy(content)
        /\ Strip(content.v) # <<>>
        /\ ~StartsWith(content.v, task_completed)
        /\ ~StartsWith(content.v, conversation_complete)
        /\ ~StartsWith(content.v, handoff_prefix)
        /\ ~Contains(content.v, handoff_complete_task)

\* A callback that stores every answer, the latest one last.
stores_response_Latest(tracker, message) == is_agent_response(message)

\* Lines 146-150: only the first answer is stored.
stores_response(tracker, message) ==
    is_agent_response(message) /\ ~Truthy(tracker.last_agent_response)

\* Lines 83-196: agent_response_callback, as the tracker it leaves.
agent_response_callback(tracker, message) ==
    LET agent_name == IF message.name = NoName THEN Unknown ELSE message.name
        named == [tracker EXCEPT !.last_agent = agent_name]
    IN  IF stores_response(tracker, message)
        THEN [named EXCEPT !.last_agent_response = message_content(message),
                           !.response_received = TRUE,
                           !.should_stop = TRUE]
        ELSE named

\* Line 221: the content that ends the conversation.
terminate_conversation == <<"_", "_", "T", "E", "R", "M", "I", "N", "A", "T", "E", "_", "C", "O", "N", "V", "E", "R", "S", "A", "T", "I", "O", "N", "_", "_">>

\* A human response function that returns the empty message every time.
human_response_function_AlwaysEmpty(tracker) == <<>>

\* Lines 199-224: human_response_function, the content of the message it
\* returns for the tracker it is called with.
human_response_function(tracker) ==
    IF tracker.human_response_calls > 0 THEN terminate_conversation ELSE <<>>

(***************************************************************************)
(* HandoffService, src/domain/services/handoff_service.py.                 *)
(***************************************************************************)
timeout_apology == <<"I", "'", "m", " ", "s", "o", "r", "r", "y", ",", " ", "t", "h", "e", " ", "r", "e", "q", "u", "e", "s", "t", " ", "t", "i", "m", "e", "d", " ", "o", "u", "t", ".", " ", "P", "l", "e", "a", "s", "e", " ", "t", "r", "y", " ", "a", "g", "a", "i", "n", ".">>
error_apology == <<"I", "'", "m", " ", "s", "o", "r", "r", "y", ",", " ", "I", " ", "e", "n", "c", "o", "u", "n", "t", "e", "r", "e", "d", " ", "a", "n", " ", "e", "r", "r", "o", "r", " ", "p", "r", "o", "c", "e", "s", "s", "i", "n", "g", " ", "y", "o", "u", "r", " ", "r", "e", "q", "u", "e", "s", "t", ".">>
no_response_apology == <<"I", "'", "m", " ", "s", "o", "r", "r", "y", ",", " ", "I", " ", "c", "o", "u", "l", "d", "n", "'", "t", " ", "g", "e", "n", "e", "r", "a", "t", "e", " ", "a", " ", "r", "e", "s", "p", "o", "n", "s", "e", ".">>
error_apology_prefix == <<"I", "'", "m", " ", "s", "o", "r", "r", "y", ",", " ", "I", " ", "e", "n", "c", "o", "u", "n", "t", "e", "r", "e", "d", " ", "a", "n", " ", "e", "r", "r", "o", "r", " ", "p", "r", "o", "c", "e", "s", "s", "i", "n", "g", " ", "y", "o", "u", "r", " ", "r", "e", "q", "u", "e", "s", "t", ":", " ">>

\* An {agent, answer} pair returned, an exception that leaves the call, and
\* the call still running.
Pair(agent, answer) == [kind |-> "return", agent |-> agent, answer |-> answer]
Propagated == [kind |-> "raise", agent |-> NoName, answer |-> <<>>]
Pending == [kind |-> "none", agent |-> NoName, answer |-> <<>>]

\* Lines 246-259: the texts of the parts are appended until the answer is
\* not blank.
RECURSIVE items_answer(_, _, _)
items_answer(items, i, answer) ==
    IF i > Len(items) THEN answer
    ELSE LET added == IF AttrTruthy(items[i].text) THEN answer \o StrOf(items[i].text)
                      ELSE IF AttrTruthy(items[i].content) THEN answer \o StrOf(items[i].content)
                      ELSE answer
         IN  IF Strip(added) # <<>> THEN added ELSE items_answer(items, i + 1, added)

type_orchestration_result == <<"O", "r", "c", "h", "e", "s", "t", "r", "a", "t", "i", "o", "n", "R", "e", "s", "u", "l", "t">>
type_task == <<"T", "a", "s", "k">>

\* Lines 215-278: _extract_from_message.
extract_from_message(message) ==
    LET a1 == IF AttrTruthy(message.content) THEN StrOf(message.content) ELSE <<>>
        a2 == IF a1 = <<>> /\ AttrTruthy(message.text) THEN StrOf(message.text) ELSE a1
        a3 == IF a2 = <<>> /\ message.items # <<>>
              THEN items_answer(message.items, 1, <<>>) ELSE a2
        a4 == IF a3 = <<>>
                 /\ ~Contains(message.type_name, type_orchestration_result)
                 /\ ~Contains(message.type_name, type_task)
              THEN message.str ELSE a3
    IN  Strip(a4)

\* Lines 177-213: _extract_answer.  A final value is None, a list of
\* messages, or one message.
extract_answer(final_value) ==
    IF final_value.kind = "none" THEN <<>>
    ELSE IF final_value.elems = <<>> THEN <<>>
    ELSE extract_from_message(final_value.elems[Len(final_value.elems)])

\* Lines 97 and 112: the label of an answer that did not come from an agent.
fallback_agent == SearchAgentName

\* Handlers that return the apology whatever the tracker holds.
on_failure_ApologyOnly(tracker, apology) == Pair(fallback_agent, apology)

\* Lines 88-99 and 103-114: what the handlers of a timeout and of an
\* exception return.
on_failure(tracker, apology) ==
    IF Truthy(tracker.last_agent_response)
    THEN Pair(tracker.last_agent, Strip(tracker.last_agent_response.v))
    ELSE Pair(fallback_agent, apology)

\* A completion that returns the answer found, blank or not.
on_completion_NoDefault(tracker, final_value) ==
    LET tracker_answer == tracker.last_agent_response
        answer == IF Truthy(tracker_answer) /\ Strip(tracker_answer.v) # <<>>
                  THEN tracker_answer.v ELSE extract_answer(final_value)
    IN  Pair(tracker.last_agent, Strip(answer))

\* Lines 122-150: the pair returned after the orchestration has completed.
on_completion(tracker, final_value) ==
    LET tracker_answer == tracker.last_agent_response
        answer == IF Truthy(tracker_answer) /\ Strip(tracker_answer.v) # <<>>
                  THEN tracker_answer.v ELSE extract_answer(final_value)
        text == IF answer = <<>> \/ Strip(answer) = <<>> THEN no_response_apology ELSE answer
    IN  Pair(tracker.last_agent, Strip(text))

\* Lines 152-166: the outer handler.
on_error(tracker, message) == Pair(tracker.last_agent, error_apology_prefix \o message)

(***************************************************************************)
(* State.                                                                  *)
(*   question     the question of the request                              *)
(*   sa_pc        the position of SearchAgent.process                      *)
(*   film_title   its local film_title (Optional[str])                     *)
(*   consulted    the extraction rules whose search has run, in order      *)
(*   film_info    its local film_info (Optional[dict])                     *)
(*   lookups      the number of catalog queries it has issued              *)
(*   sa_result    how it ended: kind "return" with an Optional[str], or    *)
(*                kind "raise"; kind "none" while it runs                  *)
(*   llm_pc       the position of LLMAgent.process                         *)
(*   kernel_functions  the functions registered in the kernel              *)
(*   llm_reply    the outcome of its kernel.invoke                         *)
(*   llm_result   how it ended, as sa_result                               *)
(*   pc           the position of HandoffService.process_question          *)
(*   runtime      the InProcessRuntime: "none", "started", "stopped"       *)
(*   agent_tracker  the dict shared by the callbacks and the service       *)
(*   active       the member of the orchestration that holds the turn      *)
(*   turn         whose move it is: "agent", "human", "ended"; "none"      *)
(*                before the orchestration runs                            *)
(*   callbacks    the number of calls of agent_response_callback           *)
(*   human_message  the content human_response_function returned last     *)
(*   final_value  the value of the result of the orchestration             *)
(*   answer_author  the member whose message is stored in the tracker      *)
(*   failure      what ended the wait: "none", "create", "start",          *)
(*                "timeout", "exception", "extract"                        *)
(*   result       what process_question returned                           *)
(*   rt_pc        the position of the router of the handoff endpoint       *)
(*   routed_by    what chose the handler: "classifier" or "fallback"       *)
(*   decision     the handler chosen                                       *)
(*   executed     the handlers that were executed, in order                *)
(*   route_result the {agent, answer} pair the router returned             *)
(***************************************************************************)
VARIABLES question, sa_pc, film_title, consulted, film_info, lookups, sa_result,
          llm_pc, kernel_functions, llm_reply, llm_result,
          pc, runtime, agent_tracker, active, turn, callbacks, human_message,
          final_value, answer_author, failure, result,
          rt_pc, routed_by, decision, executed, route_result,
          invocation, first_result,
          req_pc, configured, kernel_instance, req_kernel, kernel_plugins,
          trackers, accesses,
          ask_pc, received, yielded, origin, ask_failed,
          rn_pc, authorization, path_customer_id, rental_data, rentals, rentals_before, status_code, served,
          fm_pc, film_op, film_year, film_target, fields_valid, films, films_before, film_status, film_served,
          cr_op, cr_id, cr_customer, cr_skip, cr_limit, cr_status, cr_body, rental_rows, rows_before, rental_id_seq, deleted_ids,
          fs_pc, fs_film, fs_reply, fs_failed, fs_result,
          dk_pc, dk_instance, dk_services, dk_returned, dk_cached, dk_seen,
          tk_tracker, tk_before, tk_message, tk_text, tk_delivered

searchVars == <<sa_pc, film_title, consulted, film_info, lookups, sa_result>>
llmVars == <<llm_pc, kernel_functions, llm_reply, llm_result>>
engineVars == <<agent_tracker, active, turn, callbacks, human_message, final_value, answer_author>>
serviceVars == <<pc, runtime, failure, result>>
routeVars == <<rt_pc, routed_by, decision, executed, route_result>>
twiceVars == <<invocation, first_result>>
sharedVars == <<req_pc, configured, kernel_instance, req_kernel, kernel_plugins, trackers, accesses>>
askVars == <<ask_pc, received, yielded, origin, ask_failed>>
rentalVars == <<rn_pc, authorization, path_customer_id, rental_data, rentals, rentals_before, status_code, served>>
filmVars == <<fm_pc, film_op, film_year, film_target, fields_valid, films, films_before, film_status, film_served>>
crudVars == <<cr_op, cr_id, cr_customer, cr_skip, cr_limit, cr_status, cr_body, rental_rows, rows_before, rental_id_seq, deleted_ids>>
summaryVars == <<fs_pc, fs_film, fs_reply, fs_failed, fs_result>>
kernelVars == <<dk_pc, dk_instance, dk_services, dk_returned, dk_cached, dk_seen>>
trackerVars == <<tk_tracker, tk_before, tk_message, tk_text, tk_delivered>>
extVars == <<routeVars, twiceVars, sharedVars, askVars, rentalVars, filmVars, crudVars, summaryVars, kernelVars, trackerVars>>
\* The state outside the router, and outside the repeated call.
notRoute == <<twiceVars, sharedVars, askVars, rentalVars, filmVars, crudVars, summaryVars, kernelVars, trackerVars>>
notTwice == <<routeVars, sharedVars, askVars, rentalVars, filmVars, crudVars, summaryVars, kernelVars, trackerVars>>
notShared == <<routeVars, twiceVars, askVars, rentalVars, filmVars, crudVars, summaryVars, kernelVars, trackerVars>>
notAsk == <<routeVars, twiceVars, sharedVars, rentalVars, filmVars, crudVars, summaryVars, kernelVars, trackerVars>>
notRental == <<routeVars, twiceVars, sharedVars, askVars, filmVars, crudVars, summaryVars, kernelVars, trackerVars>>
notFilm == <<routeVars, twiceVars, sharedVars, askVars, rentalVars, crudVars, summaryVars, kernelVars, trackerVars>>
notCrud == <<routeVars, twiceVars, sharedVars, askVars, rentalVars, filmVars, summaryVars, kernelVars, trackerVars>>
notSummary == <<routeVars, twiceVars, sharedVars, askVars, rentalVars, filmVars, crudVars, kernelVars, trackerVars>>
notKernel == <<routeVars, twiceVars, sharedVars, askVars, rentalVars, filmVars, crudVars, summaryVars, trackerVars>>
notTracker == <<routeVars, twiceVars, sharedVars, askVars, rentalVars, filmVars, crudVars, summaryVars, kernelVars>>
vars == <<question, searchVars, llmVars, engineVars, serviceVars, extVars>>

\* What a step of SearchAgent.process leaves alone, a step of
\* LLMAgent.process, and a step of the orchestration.
SearchFrame == UNCHANGED <<llmVars, engineVars, serviceVars, extVars>>
LLMFrame == UNCHANGED <<question, searchVars, engineVars, serviceVars, extVars>>
EngineFrame == UNCHANGED <<question, searchVars, llmVars, serviceVars, extVars>>

Running == [kind |-> "none", value |-> None]
Returned(v) == [kind |-> "return", value |-> v]
Raised == [kind |-> "raise", value |-> None]

(***************************************************************************)
(* SearchAgent.process, src/app/agents/search_agent.py lines 126-255.      *)
(***************************************************************************)
\* A guard that lets every rule run whatever the earlier rules found.
NotTitle_Unguarded(ft) == TRUE

\* "if not film_title"
NotTitle(ft) == ~Truthy(ft)

\* One extraction rule has searched: a match sets film_title.
RuleStep(name, match, next) ==
    /\ consulted' = Append(consulted, name)
    /\ film_title' = IF match.some THEN match ELSE film_title
    /\ sa_pc' = next

RuleSkipped(next) ==
    /\ sa_pc' = next
    /\ UNCHANGED <<film_title, consulted>>

\* Lines 146-148.
TryQuoted ==
    /\ sa_pc = "quoted"
    /\ RuleStep("quoted", quoted_match(question), "pattern")
    /\ UNCHANGED <<question, film_info, lookups, sa_result>>
    /\ SearchFrame

\* Lines 151-155.
TryPattern ==
    /\ sa_pc = "pattern"
    /\ IF NotTitle(film_title)
       THEN RuleStep("pattern", film_pattern(question), "leading")
       ELSE RuleSkipped("leading")
    /\ UNCHANGED <<question, film_info, lookups, sa_result>>
    /\ SearchFrame

\* Lines 158-182.
TryLeadingRun ==
    /\ sa_pc = "leading"
    /\ IF NotTitle(film_title)
       THEN RuleStep("leading", leading_run(question), "anywhere")
       ELSE RuleSkipped("anywhere")
    /\ UNCHANGED <<question, film_info, lookups, sa_result>>
    /\ SearchFrame

\* Lines 185-204.
TryAnywhereRun ==
    /\ sa_pc = "anywhere"
    /\ IF NotTitle(film_title)
       THEN RuleStep("anywhere", anywhere_run(question), "single")
       ELSE RuleSkipped("single")
    /\ UNCHANGED <<question, film_info, lookups, sa_result>>
    /\ SearchFrame

\* Lines 207-216.
TrySingleToken ==
    /\ sa_pc = "single"
    /\ IF NotTitle(film_title)
       THEN RuleStep("single", single_token(question), "check")
       ELSE RuleSkipped("check")
    /\ UNCHANGED <<question, film_info, lookups, sa_result>>
    /\ SearchFrame

\* The check without its early return.
CheckTitle_NoEarlyReturn ==
    /\ sa_pc = "check"
    /\ sa_pc' = "lookup"
    /\ UNCHANGED <<question, film_title, consulted, film_info, lookups, sa_result>>
    /\ SearchFrame

\* Lines 218-220.
CheckTitle ==
    /\ sa_pc = "check"
    /\ IF NotTitle(film_title)
       THEN /\ sa_result' = Returned(None)
            /\ sa_pc' = "done"
       ELSE /\ sa_pc' = "lookup"
            /\ UNCHANGED sa_result
    /\ UNCHANGED <<question, film_title, consulted, film_info, lookups>>
    /\ SearchFrame

\* Lines 223-227.
SearchCatalog ==
    /\ sa_pc = "lookup"
    /\ \E out \in search_by_title_with_category(film_title.v) :
          /\ lookups' = lookups + 1
          /\ IF out.raised
             THEN /\ sa_result' = Raised
                  /\ sa_pc' = "done"
                  /\ UNCHANGED film_info
             ELSE IF ~out.info.some
             THEN /\ sa_result' = Returned(None)
                  /\ sa_pc' = "done"
                  /\ film_info' = out.info
             ELSE /\ film_info' = out.info
                  /\ sa_pc' = "classify"
                  /\ UNCHANGED sa_result
    /\ UNCHANGED <<question, film_title, consulted>>
    /\ SearchFrame

\* Lines 230-246.
ClassifyIntent ==
    /\ sa_pc = "classify"
    /\ IF asks_rating(question)
       THEN /\ sa_result' = Returned(Some(rating_sentence(film_info.v)))
            /\ sa_pc' = "done"
       ELSE IF asks_rental(question)
       THEN /\ sa_result' = Returned(Some(rental_sentence(film_info.v)))
            /\ sa_pc' = "done"
       ELSE IF asks_category(question)
       THEN /\ sa_result' = Returned(Some(category_sentence(film_info.v)))
            /\ sa_pc' = "done"
       ELSE /\ sa_pc' = "summary"
            /\ UNCHANGED sa_result
    /\ UNCHANGED <<question, film_title, consulted, film_info, lookups>>
    /\ SearchFrame

\* Lines 248-255.
GenerateSummary ==
    /\ sa_pc = "summary"
    /\ \E out \in generate_film_summary :
          sa_result' = IF out.raised THEN Raised ELSE Returned(Some(out.text))
    /\ sa_pc' = "done"
    /\ UNCHANGED <<question, film_title, consulted, film_info, lookups>>
    /\ SearchFrame

SearchAgentStep ==
    \/ TryQuoted
    \/ TryPattern
    \/ TryLeadingRun
    \/ TryAnywhereRun
    \/ TrySingleToken
    \/ CheckTitle
    \/ SearchCatalog
    \/ ClassifyIntent
    \/ GenerateSummary

(***************************************************************************)
(* LLMAgent.process as steps.                                              *)
(***************************************************************************)
\* An except clause that lets the exception through.
on_exception_Propagate(message) == Raised

\* Lines 153-158: any exception becomes an apology that ends with str(e).
on_exception(message) == Returned(Some(sorry_prefix \o message))

\* Lines 55-64: the prompt function is looked up in the kernel and, when the
\* lookup raises, added to it; add_function may raise too.
LLMGetFunction ==
    /\ llm_pc = "function"
    /\ \/ /\ answer_function \in kernel_functions
          /\ llm_pc' = "invoke"
          /\ UNCHANGED <<kernel_functions, llm_result>>
       \/ /\ answer_function \notin kernel_functions
          /\ kernel_functions' = kernel_functions \cup {answer_function}
          /\ llm_pc' = "invoke"
          /\ UNCHANGED llm_result
       \/ /\ answer_function \notin kernel_functions
          /\ llm_result' = on_exception(error_add_function)
          /\ llm_pc' = "done"
          /\ UNCHANGED kernel_functions
    /\ UNCHANGED llm_reply
    /\ LLMFrame

\* Lines 67-71.
LLMInvoke ==
    /\ llm_pc = "invoke"
    /\ \E reply \in Replies :
          /\ llm_reply' = reply
          /\ IF reply.raised
             THEN /\ llm_result' = on_exception(error_invoke)
                  /\ llm_pc' = "done"
             ELSE /\ llm_pc' = "extract"
                  /\ UNCHANGED llm_result
    /\ UNCHANGED kernel_functions
    /\ LLMFrame

\* Lines 73-151.
LLMExtract ==
    /\ llm_pc = "extract"
    /\ llm_result' = IF llm_answer(llm_reply).raised
                     THEN on_exception(error_not_iterable)
                     ELSE Returned(llm_answer(llm_reply).answer)
    /\ llm_pc' = "done"
    /\ UNCHANGED <<kernel_functions, llm_reply>>
    /\ LLMFrame

NoReply == [raised |-> FALSE, has_value |-> FALSE, is_list |-> FALSE, elems |-> <<>>]

(***************************************************************************)
(* The orchestration as the service sees it: the members take turns, every *)
(* message of a member reaches agent_response_callback, and the human      *)
(* response function is asked for input after a member has answered.      *)
(***************************************************************************)
MaxCallbacks == 3

Roles == {"assistant", "user", "tool"}

\* The member's name, or no name.
NamesOf(member) == {member, NoName}

\* The messages that carry a text: in .content, in .text, or in a part.
MessagesOf(member, text) ==
    {Message(n, "assistant", c.content, c.text, c.items) :
        n \in NamesOf(member),
        c \in {[content |-> Str(text), text |-> Absent, items |-> <<>>],
               [content |-> IsNone, text |-> Str(text), items |-> <<>>],
               [content |-> Str(<<>>), text |-> Absent,
                items |-> <<Part(Absent, Absent), Part(Str(text), Absent)>>]}}

\* The texts of the messages that are not answers.
ControlTexts ==
    { <<"T", "a", "s", "k", " ", "i", "s", " ", "c", "o", "m", "p", "l", "e", "t", "e", "d", " ", "w", "i", "t", "h", " ", "s", "u", "m", "m", "a", "r", "y", ":", " ", "a", "n", "s", "w", "e", "r", "e", "d">>,
      <<"H", "a", "n", "d", "o", "f", "f", "-", "t", "r", "a", "n", "s", "f", "e", "r", "_", "t", "o", "_", "L", "L", "M", "A", "g", "e", "n", "t">>,
      <<"C", "a", "l", "l", "i", "n", "g", " ", "H", "a", "n", "d", "o", "f", "f", "-", "c", "o", "m", "p", "l", "e", "t", "e", "_", "t", "a", "s", "k">>,
      conversation_complete,
      <<" ", " ">> }
ControlMessages(member) ==
    {Message(n, r, Str(t), Absent, <<>>) : n \in NamesOf(member), r \in Roles, t \in ControlTexts}

\* The answers of LLMAgent.process: a text, a text with blanks around it, the
\* empty string of an empty reply, the apology.
LLMAnswers ==
    { <<"P", "a", "r", "i", "s", " ", "i", "s", " ", "t", "h", "e", " ", "c", "a", "p", "i", "t", "a", "l", " ", "o", "f", " ", "F", "r", "a", "n", "c", "e", ".">>,
      <<" ", "P", "a", "r", "i", "s", ".", " ">>,
      <<>>,
      sorry_prefix \o error_invoke }

\* The final values of an orchestration: None, an empty list, a message, a
\* list that ends with a message, a result object without text.
FinalMessage(content, text, items, type_name, str) ==
    [content |-> content, text |-> text, items |-> items, type_name |-> type_name, str |-> str]
type_message == <<"C", "h", "a", "t", "M", "e", "s", "s", "a", "g", "e", "C", "o", "n", "t", "e", "n", "t">>
FinalMessages ==
    { FinalMessage(Str(<<" ", "P", "a", "r", "i", "s", ".", " ">>), Absent, <<>>, type_message, <<>>),
      FinalMessage(IsNone, Absent, <<Part(Str(<<" ">>), Absent), Part(Absent, Str(<<"P", "a", "r", "i", "s", " ", "i", "s", " ", "t", "h", "e", " ", "c", "a", "p", "i", "t", "a", "l", " ", "o", "f", " ", "F", "r", "a", "n", "c", "e", ".">>))>>,
                   type_message, <<>>),
      FinalMessage(Absent, Absent, <<>>, type_orchestration_result, repr_object),
      FinalMessage(Absent, Absent, <<>>, type_message, <<>>) }
NoFinalValue == [kind |-> "none", elems |-> <<>>]
FinalValues ==
    {NoFinalValue, [kind |-> "list", elems |-> <<>>], [kind |-> "broken", elems |-> <<>>]}
    \cup {[kind |-> "message", elems |-> <<m>>] : m \in FinalMessages}
    \cup {[kind |-> "list", elems |-> <<m1, m2>>] :
              m1 \in {FinalMessage(Absent, Absent, <<>>, type_message, <<>>)}, m2 \in FinalMessages}

EngineRunning == pc \in {"invoke", "get"}

\* agent_response_callback is called with a message of the member that
\* holds the turn.
Callback(message) ==
    /\ callbacks < MaxCallbacks
    /\ callbacks' = callbacks + 1
    /\ agent_tracker' = agent_response_callback(agent_tracker, message)
    /\ answer_author' = IF stores_response(agent_tracker, message) THEN active ELSE answer_author

\* The film handler takes the question.
SearchAgentTurn ==
    /\ EngineRunning
    /\ active = SearchAgentName
    /\ turn = "agent"
    /\ sa_pc = "idle"
    /\ sa_pc' = "quoted"
    /\ UNCHANGED <<question, film_title, consulted, film_info, lookups, sa_result>>
    /\ SearchFrame

\* The film handler has an answer and says it.
SearchAgentReply ==
    /\ EngineRunning
    /\ active = SearchAgentName
    /\ turn = "agent"
    /\ sa_pc = "done"
    /\ sa_result.kind = "return"
    /\ sa_result.value.some
    /\ \E message \in MessagesOf(SearchAgentName, sa_result.value.v) : Callback(message)
    /\ turn' = "human"
    /\ UNCHANGED <<active, human_message, final_value>>
    /\ EngineFrame

\* The general handler answers.
LLMAgentReply ==
    /\ EngineRunning
    /\ active = LLMAgentName
    /\ turn = "agent"
    /\ \E answer \in LLMAnswers :
          \E message \in MessagesOf(LLMAgentName, answer) : Callback(message)
    /\ turn' = "human"
    /\ UNCHANGED <<active, human_message, final_value>>
    /\ EngineFrame

\* A message that is not an answer: a function call, a handoff, a summary
\* of the task.
ControlMessage ==
    /\ EngineRunning
    /\ turn = "agent"
    /\ active = SearchAgentName => sa_pc = "done" /\ sa_result.kind = "return"
    /\ \E message \in ControlMessages(active) : Callback(message)
    /\ UNCHANGED <<active, turn, human_message, final_value>>
    /\ EngineFrame

\* Lines 46-71: the member that holds the turn hands the conversation to
\* another one along a configured handoff.  The film handler does so after
\* SearchAgent.process has returned.
Handoff ==
    /\ EngineRunning
    /\ turn = "agent"
    /\ active = SearchAgentName => sa_pc = "done" /\ sa_result.kind = "return"
    /\ \E target \in Members :
          /\ <<active, target>> \in handoffs
          /\ active' = target
    /\ UNCHANGED <<agent_tracker, turn, callbacks, human_message, final_value, answer_author>>
    /\ EngineFrame

\* Lines 199-224: the orchestration asks for the input of the human.
HumanResponse ==
    /\ EngineRunning
    /\ turn = "human"
    /\ human_message' = Some(human_response_function(agent_tracker))
    /\ agent_tracker' = [agent_tracker EXCEPT !.human_response_calls = @ + 1]
    /\ turn' = "agent"
    /\ UNCHANGED <<active, callbacks, final_value, answer_author>>
    /\ EngineFrame

\* The conversation ends and the orchestration has its result.
EndConversation ==
    /\ EngineRunning
    /\ turn \in {"agent", "human"}
    /\ active = SearchAgentName => sa_pc = "done" /\ sa_result.kind = "return"
    /\ turn' = "ended"
    /\ \E value \in FinalValues : final_value' = value
    /\ UNCHANGED <<agent_tracker, active, callbacks, human_message, answer_author>>
    /\ EngineFrame

(***************************************************************************)
(* HandoffService.process_question as steps.                               *)
(***************************************************************************)
ServiceFrame == UNCHANGED <<question, searchVars, llmVars, extVars>>

error_extract == <<"r", "e", "s", "u", "l", "t", " ", "u", "n", "a", "v", "a", "i", "l", "a", "b", "l", "e">>

\* Line 56: create_handoff_orchestration returns the orchestration and a new
\* tracker, or raises (lines 35-41 build the repository and the agents and
\* read their .agent).  The call is not inside a try.
CreateOrchestration ==
    /\ pc = "create"
    /\ \/ /\ agent_tracker' = new_agent_tracker
          /\ pc' = "start"
          /\ UNCHANGED <<failure, result>>
       \/ /\ result' = Propagated
          /\ failure' = "create"
          /\ pc' = "done"
          /\ UNCHANGED agent_tracker
    /\ UNCHANGED <<runtime, active, turn, callbacks, human_message, final_value, answer_author>>
    /\ ServiceFrame

\* Lines 59-60: the runtime is created and started, not inside a try.
StartRuntime ==
    /\ pc = "start"
    /\ \/ /\ runtime' = "started"
          /\ pc' = "invoke"
          /\ active' = members[1]
          /\ turn' = "agent"
          /\ UNCHANGED <<failure, result>>
       \/ /\ result' = Propagated
          /\ failure' = "start"
          /\ pc' = "done"
          /\ UNCHANGED <<runtime, active, turn>>
    /\ UNCHANGED <<agent_tracker, callbacks, human_message, final_value, answer_author>>
    /\ ServiceFrame

\* Lines 70-73: orchestration.invoke returns the handle of the result.
InvokeReturns ==
    /\ pc = "invoke"
    /\ pc' = "get"
    /\ UNCHANGED <<runtime, failure, result, engineVars>>
    /\ ServiceFrame

\* Lines 78-81: the result is there once the conversation has ended.
GetReturns ==
    /\ pc = "get"
    /\ turn = "ended"
    /\ pc' = "complete"
    /\ UNCHANGED <<runtime, failure, result, engineVars>>
    /\ ServiceFrame

\* Lines 85-99 and 167-175: one of the two waits times out.
Timeout ==
    /\ EngineRunning
    /\ result' = on_failure(agent_tracker, timeout_apology)
    /\ failure' = "timeout"
    /\ runtime' = "stopped"
    /\ pc' = "done"
    /\ UNCHANGED engineVars
    /\ ServiceFrame

\* Lines 100-114 and 167-175: the orchestration raises.
OrchestrationRaises ==
    /\ EngineRunning
    /\ result' = on_failure(agent_tracker, error_apology)
    /\ failure' = "exception"
    /\ runtime' = "stopped"
    /\ pc' = "done"
    /\ UNCHANGED engineVars
    /\ ServiceFrame

\* Lines 100-114 and 167-175: SearchAgent.process has raised (the lookup or
\* the summary failed) and the exception leaves the orchestration.
HandlerRaises ==
    /\ EngineRunning
    /\ active = SearchAgentName
    /\ turn = "agent"
    /\ sa_pc = "done"
    /\ sa_result.kind = "raise"
    /\ result' = on_failure(agent_tracker, error_apology)
    /\ failure' = "handler"
    /\ runtime' = "stopped"
    /\ pc' = "done"
    /\ UNCHANGED engineVars
    /\ ServiceFrame

\* Lines 116-150, 152-166 and 167-175: the pair is taken from the tracker or
\* from the final value; an exception on the way (a final value whose
\* attributes cannot be read) reaches the outer handler.
Complete ==
    /\ pc = "complete"
    /\ IF final_value.kind = "broken" /\ ~Truthy(agent_tracker.last_agent_response)
       THEN /\ result' = on_error(agent_tracker, error_extract)
            /\ failure' = "extract"
       ELSE /\ result' = on_completion(agent_tracker, final_value)
            /\ UNCHANGED failure
    /\ runtime' = "stopped"
    /\ pc' = "done"
    /\ UNCHANGED engineVars
    /\ ServiceFrame

(***************************************************************************)
(* The router of the handoff endpoint.  src/api/v1/ai_routes.py lines      *)
(* 129-140 build HandoffOrchestration(search_agent, llm_agent) and call    *)
(* its process(question); the class is not part of src/, so its steps      *)
(* follow section 4.4 of the specification: an optional classification, a  *)
(* deterministic fallback, the chosen handler, and the general handler     *)
(* after a film handler that returns None.                                 *)
(***************************************************************************)
\* The requests in flight at the same time, and the kernels they can make.
NumRequests == 2
Requests == 1..NumRequests
NoKernel == 0
Kernels == Requests
SharedFrame == UNCHANGED <<question, searchVars, llmVars, engineVars, serviceVars, notShared>>

RouteFrame == UNCHANGED <<question, searchVars, llmVars, engineVars, serviceVars, notRoute>>

\* A word of the question that starts with a capital and is no stop word.
HasCapitalizedWord(q) ==
    \E i \in 1..Len(Split(q)) :
        /\ IsCapitalized(word_clean(Split(q)[i]))
        /\ ToLower(word_clean(Split(q)[i])) \notin skip_words_anywhere

\* Section 4.4: the film handler for a question that holds "film" or
\* "movie" or a capitalized word outside the stop words, else the general
\* handler.
deterministic_fallback(q) ==
    IF \/ Contains(ToLower(q), kw_film)
       \/ Contains(ToLower(q), kw_movie)
       \/ HasCapitalizedWord(q)
    THEN SearchAgentName ELSE LLMAgentName

\* The outcomes of the classification: a handler, or none (unavailable or
\* invalid).
Classifications == {SearchAgentName, LLMAgentName, NoName}

ClassifyQuestion ==
    /\ rt_pc = "classify"
    /\ \E c \in Classifications :
          /\ routed_by' = IF c = NoName THEN "fallback" ELSE "classifier"
          /\ decision' = IF c = NoName THEN deterministic_fallback(question) ELSE c
    /\ rt_pc' = "execute"
    /\ UNCHANGED <<executed, route_result>>
    /\ RouteFrame

\* The film handler was chosen: SearchAgent.process is called.
RunFilmHandler ==
    /\ rt_pc = "execute"
    /\ decision = SearchAgentName
    /\ sa_pc = "idle"
    /\ sa_pc' = "quoted"
    /\ executed' = Append(executed, SearchAgentName)
    /\ rt_pc' = "film"
    /\ UNCHANGED <<question, film_title, consulted, film_info, lookups, sa_result>>
    /\ UNCHANGED <<routed_by, decision, route_result>>
    /\ UNCHANGED <<llmVars, engineVars, serviceVars, notRoute>>

\* SearchAgent.process has ended: its text is the answer, None hands the
\* question to the general handler, an exception becomes an apology of the
\* general handler.
FilmHandlerDone ==
    /\ rt_pc = "film"
    /\ sa_pc = "done"
    /\ IF sa_result.kind = "raise"
       THEN /\ route_result' = Pair(LLMAgentName, error_apology)
            /\ rt_pc' = "done"
       ELSE IF sa_result.value.some
       THEN /\ route_result' = Pair(SearchAgentName, sa_result.value.v)
            /\ rt_pc' = "done"
       ELSE /\ rt_pc' = "general"
            /\ UNCHANGED route_result
    /\ UNCHANGED <<routed_by, decision, executed>>
    /\ RouteFrame

\* The general handler was chosen, or the film handler had no answer:
\* LLMAgent.process is called and its string is the answer.
RunGeneralHandler ==
    /\ \/ rt_pc = "general"
       \/ rt_pc = "execute" /\ decision = LLMAgentName
    /\ \E answer \in LLMAnswers : route_result' = Pair(LLMAgentName, answer)
    /\ executed' = Append(executed, LLMAgentName)
    /\ rt_pc' = "done"
    /\ UNCHANGED <<routed_by, decision>>
    /\ RouteFrame

RouteIdle ==
    /\ rt_pc = "idle"
    /\ routed_by = "none"
    /\ decision = NoName
    /\ executed = <<>>
    /\ route_result = Pending

(***************************************************************************)
(* SpecRental: requests to POST /customers/{customer_id}/rentals,          *)
(* src/api/v1/customer_routes.py lines 59-140, behind the token guard of   *)
(* src/core/auth.py.                                                       *)
(***************************************************************************)
RentalFrame == UNCHANGED <<question, searchVars, llmVars, engineVars, serviceVars, notRental>>

\* The Authorization header: absent, or a scheme and credentials.
NoHeader == [present |-> FALSE, scheme |-> <<>>, credentials |-> <<>>]
Header(scheme, credentials) == [present |-> TRUE, scheme |-> scheme, credentials |-> credentials]
scheme_bearer == <<"b", "e", "a", "r", "e", "r">>
Tokens ==
    { <<"d", "v", "d", "_", "t", "e", "s", "t">>,
      <<"d", "v", "d", "_">>,
      <<"d", "v", "d">>,
      <<"D", "V", "D", "_", "t", "e", "s", "t">>,
      <<"x", "d", "v", "d", "_">>,
      <<>> }
Headers ==
    {NoHeader}
    \cup {Header(<<"B", "e", "a", "r", "e", "r">>, t) : t \in Tokens}
    \cup {Header(<<"B", "a", "s", "i", "c">>, <<"d", "v", "d", "_", "t", "e", "s", "t">>)}

\* The body: RentalCreateRequest needs inventory_id and staff_id.
NoBody == [valid |-> FALSE, inventory_id |-> 0, staff_id |-> 0]
Bodies ==
    {NoBody}
    \cup {[valid |-> TRUE, inventory_id |-> i, staff_id |-> 1] : i \in 1..2}

\* The rows of customer and of inventory: customer 3 and inventory 2 do not
\* exist.
CustomerIds == {1, 2}
InventoryIds == {1}
PathCustomerIds == 1..3

\* HTTPBearer (auth.py line 27): a request without header, with no
\* credentials or with another scheme is not authenticated.
bearer_accepts(header) ==
    /\ header.present
    /\ header.credentials # <<>>
    /\ ToLower(header.scheme) = scheme_bearer

\* The guard that accepts every token.
token_accepted_Any(token, token_prefix) == TRUE

\* auth.py lines 86-91: "if token_prefix and not
\* token.startswith(token_prefix)" raises.
token_accepted(token, token_prefix) ==
    ~(Truthy(token_prefix) /\ ~StartsWithAt(token, 1, token_prefix.v))

\* auth.py lines 158-161.
verify_dvd_token == [token_prefix |-> Some(<<"d", "v", "d", "_">>), token_validator |-> None]

\* core.dependencies.get_dvd_token_guard, imported by customer_routes.py
\* line 31: the guard of the dvd_ prefix.
get_dvd_token_guard == verify_dvd_token

\* rental_repository.py lines 62-81: the row inserted.
NewRental(customer_id, data) ==
    [id |-> Cardinality(rentals) + 1, inventory_id |-> data.inventory_id,
     customer_id |-> customer_id, staff_id |-> data.staff_id]

MaxRentalRequests == 2

\* A request arrives.
RentalRequest ==
    /\ rn_pc = "idle"
    /\ served < MaxRentalRequests
    /\ \E h \in Headers : authorization' = h
    /\ \E c \in PathCustomerIds : path_customer_id' = c
    /\ \E b \in Bodies : rental_data' = b
    /\ rentals_before' = rentals
    /\ status_code' = 0
    /\ rn_pc' = "security"
    /\ UNCHANGED <<rentals, served>>
    /\ RentalFrame

\* The security dependency: 403 from HTTPBearer, 401 in later versions of
\* the framework.
CheckBearer ==
    /\ rn_pc = "security"
    /\ IF bearer_accepts(authorization)
       THEN /\ rn_pc' = "guard"
            /\ UNCHANGED status_code
       ELSE /\ rn_pc' = "done"
            /\ \E code \in {401, 403} : status_code' = code
    /\ UNCHANGED <<authorization, path_customer_id, rental_data, rentals, rentals_before, served>>
    /\ RentalFrame

\* auth.py lines 83-102: token_guard.
TokenGuard ==
    /\ rn_pc = "guard"
    /\ IF token_accepted(authorization.credentials, get_dvd_token_guard.token_prefix)
       THEN /\ rn_pc' = "validate"
            /\ UNCHANGED status_code
       ELSE /\ rn_pc' = "done"
            /\ status_code' = 401
    /\ UNCHANGED <<authorization, path_customer_id, rental_data, rentals, rentals_before, served>>
    /\ RentalFrame

\* The body is validated against RentalCreateRequest.
ValidateBody ==
    /\ rn_pc = "validate"
    /\ IF rental_data.valid
       THEN /\ rn_pc' = "create"
            /\ UNCHANGED status_code
       ELSE /\ rn_pc' = "done"
            /\ status_code' = 422
    /\ UNCHANGED <<authorization, path_customer_id, rental_data, rentals, rentals_before, served>>
    /\ RentalFrame

\* customer_routes.py lines 85-140: the rental is inserted with the
\* customer_id of the path; a violated constraint gives 400, another
\* failure 500.
CreateRental ==
    /\ rn_pc = "create"
    /\ \/ /\ path_customer_id \in CustomerIds
          /\ rental_data.inventory_id \in InventoryIds
          /\ rentals' = rentals \cup {NewRental(path_customer_id, rental_data)}
          /\ status_code' = 201
       \/ /\ \/ path_customer_id \notin CustomerIds
             \/ rental_data.inventory_id \notin InventoryIds
             \/ \E r \in rentals : /\ r.customer_id = path_customer_id
                                   /\ r.inventory_id = rental_data.inventory_id
          /\ status_code' = 400
          /\ UNCHANGED rentals
       \/ /\ status_code' = 500
          /\ UNCHANGED rentals
    /\ rn_pc' = "done"
    /\ UNCHANGED <<authorization, path_customer_id, rental_data, rentals_before, served>>
    /\ RentalFrame

\* The response is sent.
RentalResponse ==
    /\ rn_pc = "done"
    /\ served' = served + 1
    /\ rn_pc' = "idle"
    /\ UNCHANGED <<authorization, path_customer_id, rental_data, rentals, rentals_before, status_code>>
    /\ RentalFrame

(***************************************************************************)
(* SpecFilm: requests to POST /films/ and PUT /films/{film_id},            *)
(* src/api/v1/film_routes.py, with the validators of FilmBase and of       *)
(* FilmUpdate and the statements of FilmRepository.  A stored film is its  *)
(* release_year; its id is its position.                                   *)
(***************************************************************************)
FilmFrame == UNCHANGED <<question, searchVars, llmVars, engineVars, serviceVars, notFilm>>

\* The release years tried: around both ends of the range, inside it, zero
\* and a negative one.
Years == {-1, 0, 1900, 1901, 1902, 2000, 2154, 2155, 2156}
ReleaseYears == {None} \cup {Some(y) : y \in Years}

\* A validator that accepts every year.
validate_release_year_Any(v) == TRUE

\* domain/models/film.py lines 135-140, FilmBase.validate_release_year: TRUE
\* when the value is returned, FALSE when ValueError is raised.
validate_release_year(v) ==
    ~(v.some /\ (v.v < 1901 \/ v.v > 2155))

\* domain/schemas/film.py lines 85-90, FilmUpdate.validate_release_year.
update_validate_release_year(v) ==
    ~(v.some /\ (v.v < 1901 \/ v.v > 2155))

\* film_repository.py lines 258-266: a year of 0 is skipped, a year outside
\* the range raises ValueError, another year is set.
update_release_year(v) ==
    IF ~v.some \/ v.v = 0 THEN "skip"
    ELSE IF ~(1901 <= v.v /\ v.v <= 2155) THEN "raise"
    ELSE "set"

MaxFilmRequests == 3

\* A request arrives: a create, or an update of a film that exists or not.
FilmRequest ==
    /\ fm_pc = "idle"
    /\ film_served < MaxFilmRequests
    /\ \E op \in {"create", "update"} : film_op' = op
    /\ \E y \in ReleaseYears : film_year' = y
    /\ \E t \in 1..(Len(films) + 1) : film_target' = t
    /\ \E ok \in BOOLEAN : fields_valid' = ok
    /\ films_before' = films
    /\ film_status' = 0
    /\ fm_pc' = "validate"
    /\ UNCHANGED <<films, film_served>>
    /\ FilmFrame

\* The body is validated against FilmCreate or FilmUpdate: a ValueError of
\* a validator, or another invalid field, gives 422.
ValidateFilm ==
    /\ fm_pc = "validate"
    /\ LET year_ok == IF film_op = "create" THEN validate_release_year(film_year)
                      ELSE update_validate_release_year(film_year)
       IN  IF year_ok /\ fields_valid
           THEN /\ fm_pc' = "store"
                /\ UNCHANGED film_status
           ELSE /\ fm_pc' = "done"
                /\ film_status' = 422
    /\ UNCHANGED <<film_op, film_year, film_target, fields_valid, films, films_before, film_served>>
    /\ FilmFrame

\* film_routes.py lines 59-87 and film_repository.py lines 57-109: the film
\* is inserted with the year given, or the database refuses the row.
StoreCreate ==
    /\ fm_pc = "store"
    /\ film_op = "create"
    /\ \/ /\ films' = Append(films, film_year)
          /\ film_status' = 201
       \/ /\ film_status' = 400
          /\ UNCHANGED films
    /\ fm_pc' = "done"
    /\ UNCHANGED <<film_op, film_year, film_target, fields_valid, films_before, film_served>>
    /\ FilmFrame

\* film_routes.py lines 161-200 and film_repository.py lines 234-298.
StoreUpdate ==
    /\ fm_pc = "store"
    /\ film_op = "update"
    /\ IF update_release_year(film_year) = "raise"
       THEN /\ film_status' = 500
            /\ UNCHANGED films
       ELSE IF film_target > Len(films)
       THEN /\ film_status' = 404
            /\ UNCHANGED films
       ELSE /\ film_status' = 200
            /\ films' = IF update_release_year(film_year) = "set"
                        THEN [films EXCEPT ![film_target] = film_year]
                        ELSE films
    /\ fm_pc' = "done"
    /\ UNCHANGED <<film_op, film_year, film_target, fields_valid, films_before, film_served>>
    /\ FilmFrame

\* The response is sent.
FilmResponse ==
    /\ fm_pc = "done"
    /\ film_served' = film_served + 1
    /\ fm_pc' = "idle"
    /\ UNCHANGED <<film_op, film_year, film_target, fields_valid, films, films_before, film_status>>
    /\ FilmFrame

(***************************************************************************)
(* SpecCrud: the rental endpoints of src/api/v1/rental_routes.py and the   *)
(* list endpoint of src/api/v1/customer_routes.py over the rental table.   *)
(* A row of the table is its rental_id and its customer_id.                *)
(***************************************************************************)
CrudFrame == UNCHANGED <<question, searchVars, llmVars, engineVars, serviceVars, notCrud>>

MaxRentalIds == 3
RentalIds == 0..MaxRentalIds
Customers == {1, 2}
PathCustomers == {0} \cup Customers
Skips == {-1, 0, 1}
Limits == {-1, 0, 1, 2}

RowIds(rows) == {r.id : r \in rows}

\* rental_repository.py lines 62-66: the INSERT names no rental_id, so the
\* id is the next value of the sequence of the table.
nextval(rows, seq) == seq

RECURSIVE OrderDesc(_)
\* ORDER BY rental.rental_id DESC (line 146).
OrderDesc(rows) ==
    IF rows = {} THEN <<>>
    ELSE LET m == CHOOSE r \in rows : \A o \in rows : o.id <= r.id
         IN  <<m>> \o OrderDesc(rows \ {m})

RECURSIVE OrderAsc(_)
\* ORDER BY rental.rental_id (line 164).
OrderAsc(rows) ==
    IF rows = {} THEN <<>>
    ELSE LET m == CHOOSE r \in rows : \A o \in rows : r.id <= o.id
         IN  <<m>> \o OrderAsc(rows \ {m})

\* LIMIT :limit OFFSET :skip, both not negative.
LimitOffset(rows, limit, skip) ==
    LET last == IF skip + limit < Len(rows) THEN skip + limit ELSE Len(rows)
    IN  SubSeq(rows, skip + 1, last)

\* rental_repository.py lines 134-176, RentalRepository.get_all: the rows
\* of the customer when customer_id is truthy, else the rows of everybody.
get_all(rows, skip, limit, customer_id) ==
    IF customer_id # 0
    THEN LimitOffset(OrderDesc({r \in rows : r.customer_id = customer_id}), limit, skip)
    ELSE LimitOffset(OrderAsc(rows), limit, skip)

\* rental_repository.py lines 94-114, RentalRepository.get_by_id.
get_by_id(rows, rental_id) == {r \in rows : r.id = rental_id}

\* A delete that reports a deleted row whatever the table holds.
delete_Always(rows, rental_id) == TRUE

\* rental_repository.py lines 211-215, RentalRepository.delete: TRUE when
\* the statement deleted a row (result.rowcount > 0).
delete(rows, rental_id) == Cardinality(get_by_id(rows, rental_id)) > 0

\* What a handler leaves of the request and of the table.
Handled(op, id, customer, skip, limit) ==
    /\ cr_op' = op
    /\ cr_id' = id
    /\ cr_customer' = customer
    /\ cr_skip' = skip
    /\ cr_limit' = limit
    /\ rows_before' = rental_rows

\* POST /rentals/ (rental_routes.py lines 36-102).
PostRental ==
    /\ rental_id_seq <= MaxRentalIds
    /\ \E c \in Customers :
          LET id == nextval(rental_rows, rental_id_seq)
          IN  /\ Handled("create", id, c, 0, 0)
              /\ rental_rows' = {r \in rental_rows : r.id # id} \cup {[id |-> id, customer_id |-> c]}
              /\ cr_body' = <<[id |-> id, customer_id |-> c]>>
    /\ rental_id_seq' = rental_id_seq + 1
    /\ cr_status' = 201
    /\ UNCHANGED deleted_ids
    /\ CrudFrame

\* GET /rentals/{rental_id} (rental_routes.py lines 125-149).
GetRental ==
    /\ \E id \in RentalIds :
          /\ Handled("get", id, 0, 0, 0)
          /\ IF get_by_id(rental_rows, id) = {}
             THEN /\ cr_status' = 404
                  /\ cr_body' = <<>>
             ELSE /\ cr_status' = 200
                  /\ cr_body' = OrderAsc(get_by_id(rental_rows, id))
    /\ UNCHANGED <<rental_rows, rental_id_seq, deleted_ids>>
    /\ CrudFrame

\* DELETE /rentals/{rental_id} (rental_routes.py lines 181-201): 404 when
\* no row was deleted.
DeleteRental ==
    /\ \E id \in RentalIds :
          /\ Handled("delete", id, 0, 0, 0)
          /\ rental_rows' = {r \in rental_rows : r.id # id}
          /\ IF delete(rental_rows, id)
             THEN /\ cr_status' = 204
                  /\ deleted_ids' = deleted_ids \cup {id}
             ELSE /\ cr_status' = 404
                  /\ UNCHANGED deleted_ids
    /\ cr_body' = <<>>
    /\ UNCHANGED rental_id_seq
    /\ CrudFrame

\* GET /customers/{customer_id}/rentals (customer_routes.py lines 36-56):
\* a negative limit or skip is refused by the database and gives 500.
GetCustomerRentals ==
    /\ \E c \in PathCustomers, skip \in Skips, limit \in Limits :
          /\ Handled("list", 0, c, skip, limit)
          /\ IF skip < 0 \/ limit < 0
             THEN /\ cr_status' = 500
                  /\ cr_body' = <<>>
             ELSE /\ cr_status' = 200
                  /\ cr_body' = get_all(rental_rows, skip, limit, c)
    /\ UNCHANGED <<rental_rows, rental_id_seq, deleted_ids>>
    /\ CrudFrame

(***************************************************************************)
(* SpecSummary: AIService.get_film_summary,                                *)
(* src/domain/services/ai_service.py lines 138-325.  The reply of the      *)
(* model is what json.loads makes of the cleaned text: a failure, an       *)
(* object, or a value that is no object.  A JSON value is its type and its *)
(* text.                                                                   *)
(***************************************************************************)
SummaryFrame == UNCHANGED <<question, searchVars, llmVars, engineVars, serviceVars, notSummary>>

J(t, v) == [t |-> t, v |-> v]
JAbsent == J("absent", "")
JStr(s) == J("str", s)
not_available == "N/A"

\* The film looked up: absent, or its title and its rating (a member of
\* FilmRating, domain/models/film.py lines 44-48, or None).
NoFilm == [found |-> FALSE, title |-> "", rating |-> ""]
FilmRatings == {"", "PG-13", "R"}
SummaryFilms == {NoFilm} \cup {[found |-> TRUE, title |-> "Alien", rating |-> r] : r \in FilmRatings}

\* The replies tried.
NoSummaryReply == [parse |-> "none", title |-> JAbsent, rating |-> JAbsent, recommended |-> JAbsent]
ReplyTitles == {JAbsent, JStr("Alien (1979)"), J("null", "")}
ReplyRatings == {JAbsent, JStr("R"), JStr("FilmRating.PG13"), JStr("FilmRating.PG-13"),
                 JStr("FilmRating.__class__"), J("num", "5")}
ReplyRecommended == {JAbsent, J("bool", "true"), J("bool", "false"), JStr("Yes"), JStr("no"),
                     JStr("recommended"), J("num", "0"), J("num", "1"), J("null", ""),
                     J("list", "[]"), J("list", "[1]")}
ObjectReplies ==
    {[parse |-> p, title |-> t, rating |-> r, recommended |-> c] :
        p \in {"object", "fixable"}, t \in ReplyTitles, r \in ReplyRatings, c \in ReplyRecommended}
SummaryReplies ==
    ObjectReplies
       \cup {[NoSummaryReply EXCEPT !.parse = p] : p \in {"invalid", "not_object"}}

\* str.lower() of the texts tried.
LowerText(s) ==
    CASE s = "Yes" -> "yes"
      [] OTHER -> s

\* bool() of a JSON value that is neither a string nor a boolean.
PyBool(j) ==
    CASE j.t = "num" -> j.v # "0"
      [] j.t = "list" -> j.v # "[]"
      [] OTHER -> FALSE

\* Lines 283-291: the member of FilmRating named after "FilmRating.", when
\* getattr finds one that has a value.
EnumValue(s) ==
    CASE s = "FilmRating.PG13" -> "PG-13"
      [] s = "FilmRating.R" -> "R"
      [] OTHER -> s

\* A rating that takes the rating of the reply first.
rating_value_ReplyFirst(film, summary) ==
    IF summary.rating.t # "absent" THEN summary.rating
    ELSE JStr(IF film.rating # "" THEN film.rating ELSE not_available)

\* Lines 277-291: the rating of the film when it has one, else the rating
\* of the reply, "N/A" when the reply has none.
rating_value(film, summary) ==
    IF film.rating # "" THEN JStr(film.rating)
    ELSE IF summary.rating.t = "absent" THEN JStr(not_available)
    ELSE IF summary.rating.t = "str" THEN JStr(EnumValue(summary.rating.v))
    ELSE summary.rating

\* Lines 294-298.
parse_recommended(summary) ==
    LET recommended == IF summary.recommended.t = "absent" THEN J("bool", "false")
                       ELSE summary.recommended
    IN  IF recommended.t = "str"
        THEN LowerText(recommended.v) \in {"true", "1", "yes", "recommended"}
        ELSE IF recommended.t = "bool" THEN recommended.v = "true"
        ELSE PyBool(recommended)

NoSummary == [kind |-> "none", title |-> JAbsent, rating |-> JAbsent, recommended |-> FALSE]
SummaryOf(title, rating, recommended) ==
    [kind |-> "returned", title |-> title, rating |-> rating, recommended |-> recommended]

\* Lines 300-304.
summary_result(film, summary) ==
    SummaryOf(IF summary.title.t = "absent" THEN JStr(film.title) ELSE summary.title,
              rating_value(film, summary),
              parse_recommended(summary))

\* Lines 312-325: the answer of the handler of Exception.
fallback_summary(film) ==
    SummaryOf(JStr(film.title),
              JStr(IF film.rating # "" THEN film.rating ELSE not_available),
              FALSE)

\* Lines 154-157: the film is looked up; ValueError when there is none.
GetFilm ==
    /\ fs_pc = "idle"
    /\ \E f \in SummaryFilms :
          /\ fs_film' = f
          /\ IF f.found
             THEN /\ fs_pc' = "invoke"
                  /\ fs_result' = NoSummary
             ELSE /\ fs_pc' = "done"
                  /\ fs_result' = [NoSummary EXCEPT !.kind = "raised"]
    /\ UNCHANGED <<fs_reply, fs_failed>>
    /\ SummaryFrame

\* Lines 169-185: get_plugin_function or kernel.invoke raises.
SummarizeRaises ==
    /\ fs_pc = "invoke"
    /\ fs_failed' = TRUE
    /\ fs_result' = fallback_summary(fs_film)
    /\ fs_pc' = "done"
    /\ UNCHANGED <<fs_film, fs_reply>>
    /\ SummaryFrame

\* Lines 182-248: the reply arrives and its text is cleaned.
SummarizeReplies ==
    /\ fs_pc = "invoke"
    /\ \E r \in SummaryReplies : fs_reply' = r
    /\ fs_pc' = "parse"
    /\ UNCHANGED <<fs_film, fs_failed, fs_result>>
    /\ SummaryFrame

\* Lines 251-311: json.loads, a second time after the trailing commas are
\* removed; ValueError when both fail and AttributeError when the value has
\* no get end in the handler of Exception.
ParseReply ==
    /\ fs_pc = "parse"
    /\ IF fs_reply.parse \in {"object", "fixable"}
       THEN /\ fs_result' = summary_result(fs_film, fs_reply)
            /\ UNCHANGED fs_failed
       ELSE /\ fs_result' = fallback_summary(fs_film)
            /\ fs_failed' = TRUE
    /\ fs_pc' = "done"
    /\ UNCHANGED <<fs_film, fs_reply>>
    /\ SummaryFrame

(***************************************************************************)
(* SpecTracker: agent_response_callback, src/app/agents/orchestration.py   *)
(* lines 83-196, called with messages of every name, role, shape and text. *)
(***************************************************************************)
TrackerFrame == UNCHANGED <<question, searchVars, llmVars, engineVars, serviceVars, notTracker>>

NoDelivery == Message(NoName, "none", Absent, Absent, <<>>)

\* The texts delivered: two answers, blanks, nothing, and the texts of the
\* orchestration itself.
DeliveredTexts ==
    { <<"P", "a", "r", "i", "s", ".">>,
      <<" ", "A", "l", "i", "e", "n", " ", "r", "e", "n", "t", "s", " ", "f", "o", "r", " ", "$", "2", ".", "9", "9", ".", " ">>,
      <<" ", " ">>,
      <<>>,
      <<"T", "a", "s", "k", " ", "i", "s", " ", "c", "o", "m", "p", "l", "e", "t", "e", "d", " ", "w", "i", "t", "h", " ", "s", "u", "m", "m", "a", "r", "y", ":", " ", "a", "n", "s", "w", "e", "r", "e", "d">>,
      <<"_", "_", "C", "O", "N", "V", "E", "R", "S", "A", "T", "I", "O", "N", "_", "C", "O", "M", "P", "L", "E", "T", "E", "_", "_">>,
      <<" ", "H", "a", "n", "d", "o", "f", "f", "-", "t", "r", "a", "n", "s", "f", "e", "r", "_", "t", "o", "_", "L", "L", "M", "A", "g", "e", "n", "t">>,
      <<"C", "a", "l", "l", "i", "n", "g", " ", "H", "a", "n", "d", "o", "f", "f", "-", "c", "o", "m", "p", "l", "e", "t", "e", "_", "t", "a", "s", "k">> }

\* The shapes that carry a text: .content, .text, or a part of .items.
DeliveredMessages(text) ==
    {Message(n, r, c.content, c.text, c.items) :
        n \in Members \cup {NoName},
        r \in {"assistant", "user"},
        c \in {[content |-> Str(text), text |-> Absent, items |-> <<>>],
               [content |-> IsNone, text |-> Str(text), items |-> <<>>],
               [content |-> Absent, text |-> Absent,
                items |-> <<Part(Absent, Absent), Part(Str(text), Absent)>>]}}

MaxDeliveries == 2

\* The orchestration calls the callback with a message.
Deliver ==
    /\ tk_delivered < MaxDeliveries
    /\ \E text \in DeliveredTexts :
          \E message \in DeliveredMessages(text) :
              /\ tk_text' = text
              /\ tk_message' = message
              /\ tk_tracker' = agent_response_callback(tk_tracker, message)
    /\ tk_before' = tk_tracker
    /\ tk_delivered' = tk_delivered + 1
    /\ TrackerFrame

\* The orchestration asks the human response function (lines 205-206).
AskHuman ==
    /\ tk_delivered > 0
    /\ tk_tracker.human_response_calls < MaxDeliveries
    /\ tk_tracker' = [tk_tracker EXCEPT !.human_response_calls = @ + 1]
    /\ tk_before' = tk_tracker
    /\ tk_message' = NoDelivery
    /\ tk_text' = human_response_function(tk_tracker)
    /\ UNCHANGED tk_delivered
    /\ TrackerFrame

\* The state of the orchestration and of the service before a request.
NoTracker ==
    [last_agent |-> NoName, response_received |-> FALSE, human_response_calls |-> 0,
     last_agent_response |-> None, should_stop |-> FALSE]
EngineIdle ==
    /\ agent_tracker = NoTracker
    /\ active = NoName
    /\ turn = "none"
    /\ callbacks = 0
    /\ human_message = None
    /\ final_value = NoFinalValue
    /\ answer_author = NoName
ServiceIdle ==
    /\ pc = "idle"
    /\ runtime = "none"
    /\ failure = "none"
    /\ result = Pending
SearchIdle ==
    /\ sa_pc = "idle"
    /\ film_title = None
    /\ consulted = <<>>
    /\ film_info = None
    /\ lookups = 0
    /\ sa_result = Running
LLMIdle ==
    /\ llm_pc = "idle"
    /\ kernel_functions = {}
    /\ llm_reply = NoReply
    /\ llm_result = Running
SharedIdle ==
    /\ req_pc = [r \in Requests |-> "idle"]
    /\ configured = FALSE
    /\ kernel_instance = NoKernel
    /\ req_kernel = [r \in Requests |-> NoKernel]
    /\ kernel_plugins = [k \in Kernels |-> {}]
    /\ trackers = [r \in Requests |-> NoName]
    /\ accesses = {}

TwiceIdle ==
    /\ invocation = 0
    /\ first_result = Running

AskIdle ==
    /\ ask_pc = "idle"
    /\ received = 0
    /\ yielded = <<>>
    /\ origin = NoOrigin
    /\ ask_failed = FALSE

RentalIdle ==
    /\ rn_pc = "idle"
    /\ authorization = NoHeader
    /\ path_customer_id = 0
    /\ rental_data = NoBody
    /\ rentals = {}
    /\ rentals_before = {}
    /\ status_code = 0
    /\ served = 0

FilmIdle ==
    /\ fm_pc = "idle"
    /\ film_op = "none"
    /\ film_year = None
    /\ film_target = 0
    /\ fields_valid = FALSE
    /\ films = <<>>
    /\ films_before = <<>>
    /\ film_status = 0
    /\ film_served = 0

CrudIdle ==
    /\ cr_op = "none"
    /\ cr_id = 0
    /\ cr_customer = 0
    /\ cr_skip = 0
    /\ cr_limit = 0
    /\ cr_status = 0
    /\ cr_body = <<>>
    /\ rental_rows = {}
    /\ rows_before = {}
    /\ rental_id_seq = 1
    /\ deleted_ids = {}

SummaryIdle ==
    /\ fs_pc = "idle"
    /\ fs_film = NoFilm
    /\ fs_reply = NoSummaryReply
    /\ fs_failed = FALSE
    /\ fs_result = NoSummary

KernelIdle ==
    /\ dk_pc = <<>>
    /\ dk_instance = NoKernel
    /\ dk_services = {}
    /\ dk_returned = <<>>
    /\ dk_cached = <<>>
    /\ dk_seen = <<>>

TrackerIdle ==
    /\ tk_tracker = NoTracker
    /\ tk_before = NoTracker
    /\ tk_message = NoDelivery
    /\ tk_text = <<>>
    /\ tk_delivered = 0

ExtIdle ==
    /\ RouteIdle
    /\ TwiceIdle
    /\ SharedIdle
    /\ AskIdle
    /\ RentalIdle
    /\ FilmIdle
    /\ CrudIdle
    /\ SummaryIdle
    /\ KernelIdle
    /\ TrackerIdle
IdleButRoute ==
    /\ TwiceIdle
    /\ SharedIdle
    /\ AskIdle
    /\ RentalIdle
    /\ FilmIdle
    /\ CrudIdle
    /\ SummaryIdle
    /\ KernelIdle
    /\ TrackerIdle
IdleButTwice ==
    /\ RouteIdle
    /\ SharedIdle
    /\ AskIdle
    /\ RentalIdle
    /\ FilmIdle
    /\ CrudIdle
    /\ SummaryIdle
    /\ KernelIdle
    /\ TrackerIdle
IdleButShared ==
    /\ RouteIdle
    /\ TwiceIdle
    /\ AskIdle
    /\ RentalIdle
    /\ FilmIdle
    /\ CrudIdle
    /\ SummaryIdle
    /\ KernelIdle
    /\ TrackerIdle
IdleButAsk ==
    /\ RouteIdle
    /\ TwiceIdle
    /\ SharedIdle
    /\ RentalIdle
    /\ FilmIdle
    /\ CrudIdle
    /\ SummaryIdle
    /\ KernelIdle
    /\ TrackerIdle
IdleButRental ==
    /\ RouteIdle
    /\ TwiceIdle
    /\ SharedIdle
    /\ AskIdle
    /\ FilmIdle
    /\ CrudIdle
    /\ SummaryIdle
    /\ KernelIdle
    /\ TrackerIdle
IdleButFilm ==
    /\ RouteIdle
    /\ TwiceIdle
    /\ SharedIdle
    /\ AskIdle
    /\ RentalIdle
    /\ CrudIdle
    /\ SummaryIdle
    /\ KernelIdle
    /\ TrackerIdle
IdleButCrud ==
    /\ RouteIdle
    /\ TwiceIdle
    /\ SharedIdle
    /\ AskIdle
    /\ RentalIdle
    /\ FilmIdle
    /\ SummaryIdle
    /\ KernelIdle
    /\ TrackerIdle
IdleButSummary ==
    /\ RouteIdle
    /\ TwiceIdle
    /\ SharedIdle
    /\ AskIdle
    /\ RentalIdle
    /\ FilmIdle
    /\ CrudIdle
    /\ KernelIdle
    /\ TrackerIdle
IdleButKernel ==
    /\ RouteIdle
    /\ TwiceIdle
    /\ SharedIdle
    /\ AskIdle
    /\ RentalIdle
    /\ FilmIdle
    /\ CrudIdle
    /\ SummaryIdle
    /\ TrackerIdle
IdleButTracker ==
    /\ RouteIdle
    /\ TwiceIdle
    /\ SharedIdle
    /\ AskIdle
    /\ RentalIdle
    /\ FilmIdle
    /\ CrudIdle
    /\ SummaryIdle
    /\ KernelIdle

(***************************************************************************)
(* Spec: one request to HandoffService.process_question.                   *)
(***************************************************************************)
Init ==
    /\ question \in HandoffQuestions
    /\ SearchIdle
    /\ LLMIdle
    /\ EngineIdle
    /\ pc = "create"
    /\ runtime = "none"
    /\ failure = "none"
    /\ result = Pending
    /\ ExtIdle

Next ==
    \/ CreateOrchestration
    \/ StartRuntime
    \/ InvokeReturns
    \/ GetReturns
    \/ Timeout
    \/ OrchestrationRaises
    \/ HandlerRaises
    \/ Complete
    \/ SearchAgentTurn
    \/ SearchAgentStep
    \/ SearchAgentReply
    \/ LLMAgentReply
    \/ ControlMessage
    \/ Handoff
    \/ HumanResponse
    \/ EndConversation

Spec == Init /\ [][Next]_vars

(***************************************************************************)
(* SpecRoute: one question to the router of the handoff endpoint.          *)
(***************************************************************************)
InitRoute ==
    /\ question \in ScenarioQuestions
    /\ SearchIdle
    /\ LLMIdle
    /\ EngineIdle
    /\ ServiceIdle
    /\ rt_pc = "classify"
    /\ routed_by = "none"
    /\ decision = NoName
    /\ executed = <<>>
    /\ route_result = Pending
    /\ IdleButRoute

NextRoute ==
    \/ ClassifyQuestion
    \/ RunFilmHandler
    \/ SearchAgentStep
    \/ FilmHandlerDone
    \/ RunGeneralHandler

SpecRoute == InitRoute /\ [][NextRoute]_vars

(***************************************************************************)
(* SpecLLM: LLMAgent.process called once, on a kernel with or without the  *)
(* prompt function, with every reply of the collaborator.                  *)
(***************************************************************************)
InitLLM ==
    /\ question \in HandoffQuestions
    /\ SearchIdle
    /\ EngineIdle
    /\ ServiceIdle
    /\ llm_pc = "function"
    /\ kernel_functions \in {{}, {answer_function}}
    /\ llm_reply = NoReply
    /\ llm_result = Running
    /\ ExtIdle

NextLLM ==
    \/ LLMGetFunction
    \/ LLMInvoke
    \/ LLMExtract

SpecLLM == InitLLM /\ [][NextLLM]_vars

(***************************************************************************)
(* SpecSearch: SearchAgent.process called once on each question.           *)
(***************************************************************************)
InitSearch ==
    /\ question \in Questions
    /\ sa_pc = "quoted"
    /\ film_title = None
    /\ consulted = <<>>
    /\ film_info = None
    /\ lookups = 0
    /\ sa_result = Running
    /\ LLMIdle
    /\ EngineIdle
    /\ ServiceIdle
    /\ ExtIdle

NextSearch ==
    \/ TryQuoted
    \/ TryPattern
    \/ TryLeadingRun
    \/ TryAnywhereRun
    \/ TrySingleToken
    \/ CheckTitle
    \/ SearchCatalog
    \/ ClassifyIntent
    \/ GenerateSummary

SpecSearch == InitSearch /\ [][NextSearch]_vars

(***************************************************************************)
(* SpecShared: concurrent requests to the handoff endpoint in one process. *)
(*                                                                         *)
(* get_ai_kernel is a plain def dependency, run in a worker thread, so the *)
(* lines of get_default_kernel of two requests interleave.  The module     *)
(* global _kernel_instance and the plugins of a kernel are shared; the     *)
(* agent_tracker is a dict made per call of create_handoff_orchestration.  *)
(* accesses records which request read or wrote which object.              *)
(***************************************************************************)
Location(obj, id) == [obj |-> obj, id |-> id]
Access(loc, r, kind) == [loc |-> loc, req |-> r, kind |-> kind]
global_kernel == Location("_kernel_instance", 0)
plugins_of(k) == Location("kernel.plugins", k)
tracker_of(r) == Location("agent_tracker", r)

\* core/ai_kernel.py lines 121-123: the cached instance is returned if it
\* exists and has services.
CheckCached(r) ==
    /\ req_pc[r] = "start"
    /\ accesses' = accesses \cup {Access(global_kernel, r, "read")}
    /\ IF kernel_instance # NoKernel /\ configured
       THEN /\ req_kernel' = [req_kernel EXCEPT ![r] = kernel_instance]
            /\ req_pc' = [req_pc EXCEPT ![r] = "orchestration"]
       ELSE /\ req_pc' = [req_pc EXCEPT ![r] = "create_kernel"]
            /\ UNCHANGED req_kernel
    /\ UNCHANGED <<configured, kernel_instance, kernel_plugins, trackers>>
    /\ SharedFrame

\* Line 126: _kernel_instance = create_kernel().  The kernel made by
\* request r is kernel r.
AssignKernel(r) ==
    /\ req_pc[r] = "create_kernel"
    /\ kernel_instance' = r
    /\ accesses' = accesses \cup {Access(global_kernel, r, "write")}
    /\ req_pc' = [req_pc EXCEPT ![r] = "return_kernel"]
    /\ UNCHANGED <<configured, req_kernel, kernel_plugins, trackers>>
    /\ SharedFrame

\* Lines 129-132: return _kernel_instance, the global as it is now.
ReturnKernel(r) ==
    /\ req_pc[r] = "return_kernel"
    /\ req_kernel' = [req_kernel EXCEPT ![r] = kernel_instance]
    /\ accesses' = accesses \cup {Access(global_kernel, r, "read")}
    /\ req_pc' = [req_pc EXCEPT ![r] = "orchestration"]
    /\ UNCHANGED <<configured, kernel_instance, kernel_plugins, trackers>>
    /\ SharedFrame

\* orchestration.py lines 73-80: a new agent_tracker for this request.
NewTracker(r) ==
    /\ req_pc[r] = "orchestration"
    /\ trackers' = [trackers EXCEPT ![r] = new_agent_tracker.last_agent]
    /\ accesses' = accesses \cup {Access(tracker_of(r), r, "write")}
    /\ req_pc' = [req_pc EXCEPT ![r] = "running"]
    /\ UNCHANGED <<configured, kernel_instance, req_kernel, kernel_plugins>>
    /\ SharedFrame

\* orchestration.py lines 83-87: the callback of this request writes the
\* tracker of this request.
TrackAgent(r) ==
    /\ req_pc[r] = "running"
    /\ \E name \in Members :
          trackers' = [trackers EXCEPT ![r] = name]
    /\ accesses' = accesses \cup {Access(tracker_of(r), r, "write")}
    /\ req_pc' = [req_pc EXCEPT ![r] = "general"]
    /\ UNCHANGED <<configured, kernel_instance, req_kernel, kernel_plugins>>
    /\ SharedFrame

\* llm_agent.py lines 56-64: the function General.answer_question is looked
\* up in the kernel of the request and added to it when missing.
GetOrAddFunction(r) ==
    /\ req_pc[r] = "general"
    /\ LET k == req_kernel[r]
       IN  IF answer_function \in kernel_plugins[k]
           THEN /\ accesses' = accesses \cup {Access(plugins_of(k), r, "read")}
                /\ UNCHANGED kernel_plugins
           ELSE /\ accesses' = accesses \cup {Access(plugins_of(k), r, "read"),
                                                Access(plugins_of(k), r, "write")}
                /\ kernel_plugins' = [kernel_plugins EXCEPT ![k] = @ \cup {answer_function}]
    /\ req_pc' = [req_pc EXCEPT ![r] = "done"]
    /\ UNCHANGED <<configured, kernel_instance, req_kernel, trackers>>
    /\ SharedFrame

\* The film handler answered: the request ends without the general handler.
AnsweredByFilm(r) ==
    /\ req_pc[r] = "general"
    /\ trackers[r] = SearchAgentName
    /\ req_pc' = [req_pc EXCEPT ![r] = "done"]
    /\ UNCHANGED <<configured, kernel_instance, req_kernel, kernel_plugins, trackers, accesses>>
    /\ SharedFrame

InitShared ==
    /\ question \in HandoffQuestions
    /\ SearchIdle
    /\ LLMIdle
    /\ EngineIdle
    /\ ServiceIdle
    /\ IdleButShared
    /\ req_pc = [r \in Requests |-> "start"]
    /\ configured \in BOOLEAN
    /\ kernel_instance = NoKernel
    /\ req_kernel = [r \in Requests |-> NoKernel]
    /\ kernel_plugins = [k \in Kernels |-> {}]
    /\ trackers = [r \in Requests |-> NoName]
    /\ accesses = {}

NextShared ==
    \E r \in Requests :
        \/ CheckCached(r)
        \/ AssignKernel(r)
        \/ ReturnKernel(r)
        \/ NewTracker(r)
        \/ TrackAgent(r)
        \/ GetOrAddFunction(r)
        \/ AnsweredByFilm(r)

SpecShared == InitShared /\ [][NextShared]_vars

(***************************************************************************)
(* SpecAsk: one request to GET /ai/ask, src/api/v1/ai_routes.py lines      *)
(* 37-60: generate_stream passes on the chunks of AIService.stream_chat.   *)
(* origin is the chunk of the collaborator the last chunk yielded was made *)
(* from, or the failure it reports.                                        *)
(***************************************************************************)
MaxChunks == 2
AskFrame == UNCHANGED <<question, searchVars, llmVars, engineVars, serviceVars, notAsk>>

\* The handler of lines 131-136 runs.
AskFails(message) ==
    /\ yielded' = stream_on_exception(yielded, message)
    /\ origin' = IF Len(yielded') > Len(yielded) THEN FromFailure ELSE origin
    /\ ask_failed' = TRUE
    /\ ask_pc' = "done"
    /\ UNCHANGED received

\* Lines 64-68: the function chat.stream_chat is looked up.
AskGetFunction ==
    /\ ask_pc = "function"
    /\ \/ /\ ask_pc' = "stream"
          /\ UNCHANGED <<received, yielded, origin, ask_failed>>
       \/ AskFails(error_no_plugin)
    /\ AskFrame

\* Lines 74-125: the stream delivers a chunk; its text, if any, is yielded.
AskChunk ==
    /\ ask_pc = "stream"
    /\ received < MaxChunks
    /\ \E chunk \in StreamChunks :
          LET r == chunk_text_of(chunk)
          IN  IF r.raised THEN AskFails(error_choices)
              ELSE /\ received' = received + 1
                   /\ IF Truthy(r.chunk_text)
                      THEN /\ yielded' = Append(yielded, r.chunk_text.v)
                           /\ origin' = chunk
                      ELSE UNCHANGED <<yielded, origin>>
                   /\ UNCHANGED <<ask_pc, ask_failed>>
    /\ AskFrame

\* Lines 74-77: the stream raises instead of delivering a chunk.
AskStreamRaises ==
    /\ ask_pc = "stream"
    /\ AskFails(error_stream)
    /\ AskFrame

\* Lines 127-130: the stream is exhausted.
AskStreamEnds ==
    /\ ask_pc = "stream"
    /\ ask_pc' = "done"
    /\ UNCHANGED <<received, yielded, origin, ask_failed>>
    /\ AskFrame

InitAsk ==
    /\ question = <<"h", "e", "l", "l", "o", " ", "t", "h", "e", "r", "e">>
    /\ SearchIdle
    /\ LLMIdle
    /\ EngineIdle
    /\ ServiceIdle
    /\ IdleButAsk
    /\ ask_pc = "function"
    /\ received = 0
    /\ yielded = <<>>
    /\ origin = NoOrigin
    /\ ask_failed = FALSE

NextAsk ==
    \/ AskGetFunction
    \/ AskChunk
    \/ AskStreamRaises
    \/ AskStreamEnds

SpecAsk == InitAsk /\ [][NextAsk]_vars

(***************************************************************************)
(* SpecRental.                                                             *)
(***************************************************************************)
InitRental ==
    /\ question = <<>>
    /\ SearchIdle
    /\ LLMIdle
    /\ EngineIdle
    /\ ServiceIdle
    /\ IdleButRental
    /\ RentalIdle

NextRental ==
    \/ RentalRequest
    \/ CheckBearer
    \/ TokenGuard
    \/ ValidateBody
    \/ CreateRental
    \/ RentalResponse

SpecRental == InitRental /\ [][NextRental]_vars

(***************************************************************************)
(* SpecFilm.                                                               *)
(***************************************************************************)
InitFilm ==
    /\ question = <<>>
    /\ SearchIdle
    /\ LLMIdle
    /\ EngineIdle
    /\ ServiceIdle
    /\ IdleButFilm
    /\ FilmIdle

NextFilm ==
    \/ FilmRequest
    \/ ValidateFilm
    \/ StoreCreate
    \/ StoreUpdate
    \/ FilmResponse

SpecFilm == InitFilm /\ [][NextFilm]_vars

(***************************************************************************)
(* SpecCrud.                                                               *)
(***************************************************************************)
InitCrud ==
    /\ question = <<>>
    /\ SearchIdle
    /\ LLMIdle
    /\ EngineIdle
    /\ ServiceIdle
    /\ IdleButCrud
    /\ CrudIdle

NextCrud ==
    \/ PostRental
    \/ GetRental
    \/ DeleteRental
    \/ GetCustomerRentals

SpecCrud == InitCrud /\ [][NextCrud]_vars

(***************************************************************************)
(* SpecSummary.                                                            *)
(***************************************************************************)
InitSummary ==
    /\ question = <<>>
    /\ SearchIdle
    /\ LLMIdle
    /\ EngineIdle
    /\ ServiceIdle
    /\ IdleButSummary
    /\ SummaryIdle

NextSummary ==
    \/ GetFilm
    \/ SummarizeRaises
    \/ SummarizeReplies
    \/ ParseReply

SpecSummary == InitSummary /\ [][NextSummary]_vars

(***************************************************************************)
(* SpecKernel: calls of get_default_kernel, src/core/ai_kernel.py lines    *)
(* 102-132, by the worker threads that run the dependency get_ai_kernel    *)
(* (core/dependencies.py lines 140-147).  The kernel made by call c is     *)
(* kernel c.  dk_cached is the global a call found, dk_seen the kernels    *)
(* with services that were returned before the call began.                 *)
(***************************************************************************)
KernelFrame == UNCHANGED <<question, searchVars, llmVars, engineVars, serviceVars, notKernel>>

NumCalls == 3
Calls == 1..NumCalls

ReturnedWithServices ==
    {dk_returned[c] : c \in {d \in Calls : dk_pc[d] = "done"}} \cap dk_services

\* Line 122: the cached instance exists and has services.
is_cached(instance, services) == instance # NoKernel /\ instance \in services

\* Lines 119-123: the call begins, reads the global and returns it when it
\* is cached.
CheckInstance(c) ==
    /\ dk_pc[c] = "start"
    /\ dk_seen' = [dk_seen EXCEPT ![c] = ReturnedWithServices]
    /\ dk_cached' = [dk_cached EXCEPT ![c] = dk_instance]
    /\ IF is_cached(dk_instance, dk_services)
       THEN /\ dk_returned' = [dk_returned EXCEPT ![c] = dk_instance]
            /\ dk_pc' = [dk_pc EXCEPT ![c] = "done"]
       ELSE /\ dk_pc' = [dk_pc EXCEPT ![c] = "create"]
            /\ UNCHANGED dk_returned
    /\ UNCHANGED <<dk_instance, dk_services>>
    /\ KernelFrame

\* Line 126: create_kernel makes a kernel, with a service or, when the key
\* is missing or the connector fails (lines 53-55, 77-82), without; the
\* global is assigned.
CreateInstance(c) ==
    /\ dk_pc[c] = "create"
    /\ dk_instance' = c
    /\ \E with_service \in BOOLEAN :
          dk_services' = IF with_service THEN dk_services \cup {c} ELSE dk_services
    /\ dk_pc' = [dk_pc EXCEPT ![c] = "return"]
    /\ UNCHANGED <<dk_returned, dk_cached, dk_seen>>
    /\ KernelFrame

\* Lines 129-132: return _kernel_instance, the global as it is now.
ReturnInstance(c) ==
    /\ dk_pc[c] = "return"
    /\ dk_returned' = [dk_returned EXCEPT ![c] = dk_instance]
    /\ dk_pc' = [dk_pc EXCEPT ![c] = "done"]
    /\ UNCHANGED <<dk_instance, dk_services, dk_cached, dk_seen>>
    /\ KernelFrame

InitKernel ==
    /\ question = <<>>
    /\ SearchIdle
    /\ LLMIdle
    /\ EngineIdle
    /\ ServiceIdle
    /\ IdleButKernel
    /\ dk_pc = [c \in Calls |-> "start"]
    /\ dk_instance = NoKernel
    /\ dk_services = {}
    /\ dk_returned = [c \in Calls |-> NoKernel]
    /\ dk_cached = [c \in Calls |-> NoKernel]
    /\ dk_seen = [c \in Calls |-> {}]

NextKernel ==
    \E c \in Calls :
        \/ CheckInstance(c)
        \/ CreateInstance(c)
        \/ ReturnInstance(c)

SpecKernel == InitKernel /\ [][NextKernel]_vars

(***************************************************************************)
(* SpecTracker.                                                            *)
(***************************************************************************)
InitTracker ==
    /\ question = <<>>
    /\ SearchIdle
    /\ LLMIdle
    /\ EngineIdle
    /\ ServiceIdle
    /\ IdleButTracker
    /\ tk_tracker = new_agent_tracker
    /\ tk_before = new_agent_tracker
    /\ tk_message = NoDelivery
    /\ tk_text = <<>>
    /\ tk_delivered = 0

NextTracker ==
    \/ Deliver
    \/ AskHuman

SpecTracker == InitTracker /\ [][NextTracker]_vars

(***************************************************************************)
(* SpecTwice: SearchAgent.process called twice with the same question on   *)
(* the same catalog.  Each call runs the query of                          *)
(* search_by_title_with_category anew: LIMIT 1 without ORDER BY returns    *)
(* any one of the matching rows.                                           *)
(***************************************************************************)
\* The second call: the result of the first is kept, the locals of process
\* start afresh, the question and the catalog stay.
InvokeAgain ==
    /\ invocation = 1
    /\ sa_pc = "done"
    /\ first_result' = sa_result
    /\ invocation' = 2
    /\ sa_pc' = "quoted"
    /\ film_title' = None
    /\ consulted' = <<>>
    /\ film_info' = None
    /\ lookups' = 0
    /\ sa_result' = Running
    /\ UNCHANGED <<question, llmVars, engineVars, serviceVars, notTwice>>

InitTwice ==
    /\ question \in ScenarioQuestions
    /\ sa_pc = "quoted"
    /\ film_title = None
    /\ consulted = <<>>
    /\ film_info = None
    /\ lookups = 0
    /\ sa_result = Running
    /\ invocation = 1
    /\ first_result = Running
    /\ LLMIdle
    /\ EngineIdle
    /\ ServiceIdle
    /\ IdleButTwice

NextTwice ==
    \/ SearchAgentStep
    \/ InvokeAgain

SpecTwice == InitTwice /\ [][NextTwice]_vars

(***************************************************************************)
(* Properties of SearchAgent.process, checked under SpecSearch.            *)
(***************************************************************************)
\* The five rules in the order of section 4.1.
RuleOrder == <<"quoted", "pattern", "leading", "anywhere", "single">>
RuleResult(k, q) ==
    CASE k = 1 -> quoted_match(q)
      [] k = 2 -> film_pattern(q)
      [] k = 3 -> leading_run(q)
      [] k = 4 -> anywhere_run(q)
      [] k = 5 -> single_token(q)
MatchingRules(q) == {k \in 1..Len(RuleOrder) : RuleResult(k, q).some}
ExtractionDone == sa_pc \notin {"quoted", "pattern", "leading", "anywhere", "single"}
ProcessDone == sa_pc = "done"

\* The double quotes of q paired from the left: 1st with 2nd, 3rd with 4th.
QuotePositions(q) == {i \in 1..Len(q) : q[i] = DQ}
QuotesBefore(q, i) == Cardinality({j \in QuotePositions(q) : j < i})
QuotePairs(q) ==
    {<<i, j>> \in QuotePositions(q) \X QuotePositions(q) :
        /\ i < j
        /\ QuotesBefore(q, i) % 2 = 0
        /\ QuotesBefore(q, j) = QuotesBefore(q, i) + 1}
PairText(q, p) == SubSeq(q, p[1] + 1, p[2] - 1)
FirstPair(S) == CHOOSE p \in S : \A r \in S : p[1] <= r[1]
NonEmptyPairs(q) == {p \in QuotePairs(q) : PairText(q, p) # <<>>}

\* C8: for every question that contains a double-quoted substring, title
\* extraction returns exactly the text between the first pair of double
\* quotes.  Stated so that either reading of "first pair" satisfies it: the
\* first pair of quote characters, or the first pair with text in between.
C8_QuotedTitleExact ==
    (ExtractionDone /\ NonEmptyPairs(question) # {})
        => \/ film_title = Some(PairText(question, FirstPair(QuotePairs(question))))
           \/ film_title = Some(PairText(question, FirstPair(NonEmptyPairs(question))))

\* C9: the five rules are applied in the fixed order quoted, pattern,
\* leading run, run anywhere, single token; a rule is consulted only when
\* every earlier rule found nothing; the title is the result of the first
\* rule that matches, and there is no title when none matches.
C9_FirstMatchWins ==
    /\ Len(consulted) <= Len(RuleOrder)
    /\ \A k \in 1..Len(consulted) :
          /\ consulted[k] = RuleOrder[k]
          /\ \A j \in 1..(k - 1) : ~RuleResult(j, question).some
    /\ ExtractionDone =>
          IF MatchingRules(question) = {}
          THEN film_title = None /\ Len(consulted) = Len(RuleOrder)
          ELSE /\ film_title = RuleResult(SetMin(MatchingRules(question)), question)
               /\ Len(consulted) = SetMin(MatchingRules(question))

\* A question on which the order decides: no quoted text, the film/movie
\* pattern and the leading run both match and give different titles.
C9_OrderDecides ==
    /\ ExtractionDone
    /\ ~quoted_match(question).some
    /\ film_pattern(question).some
    /\ leading_run(question).some
    /\ film_pattern(question) # leading_run(question)
    /\ film_title = film_pattern(question)

\* C7 as claimed: process returns None when no title is found, without a
\* catalog lookup; it returns None when the lookup finds no row; in every
\* other case it returns an answer text.
C7_NoneOrText ==
    ProcessDone =>
        /\ sa_result.kind = "return"
        /\ ~Truthy(film_title) => (sa_result.value = None /\ lookups = 0)
        /\ (Truthy(film_title) /\ TitleMatches(film_title.v) = {})
              => sa_result.value = None
        /\ (Truthy(film_title) /\ TitleMatches(film_title.v) # {})
              => sa_result.value.some

\* C7 amended: as claimed, except that an exception of the catalog lookup,
\* or of the summary generation for a question of no keyword intent,
\* propagates out of process instead of a return value.
C7_NoneTextOrRaise ==
    ProcessDone =>
        /\ ~Truthy(film_title) => (sa_result = Returned(None) /\ lookups = 0)
        /\ Truthy(film_title) => lookups = 1
        /\ (Truthy(film_title) /\ TitleMatches(film_title.v) = {})
              => sa_result \in {Returned(None), Raised}
        /\ (Truthy(film_title) /\ TitleMatches(film_title.v) # {})
              => \/ sa_result.kind = "return" /\ sa_result.value.some
                 \/ sa_result = Raised
        /\ (sa_result = Raised /\ film_info.some)
              => ~(asks_rating(question) \/ asks_rental(question) \/ asks_category(question))

\* Each of the three cases of C7 has happened: no title, a title the catalog
\* does not hold, a title it holds.
C7_NoTitleCase ==
    /\ ProcessDone
    /\ MatchingRules(question) = {}
    /\ sa_result = Returned(None)

\* Case-insensitive presence of a keyword in the question.
Mentions(q, kw) == Contains(ToLower(q), kw)
WantsRating(q) == Mentions(q, kw_rating) \/ Mentions(q, kw_rated)
WantsRental(q) == Mentions(q, kw_rental) \/ Mentions(q, kw_cost) \/ Mentions(q, kw_price)
WantsCategory(q) == Mentions(q, kw_category)

\* C10: for a found film the answer is the rating sentence if the question
\* mentions rating/rated, else the rental-rate sentence if it mentions
\* rental/cost/price, else the category sentence if it mentions category,
\* else a generated summary.
C10_IntentPriority ==
    (ProcessDone /\ film_info.some /\ sa_result.kind = "return") =>
        /\ sa_result.value.some
        /\ sa_result.value.v =
              (IF WantsRating(question) THEN rating_sentence(film_info.v)
               ELSE IF WantsRental(question) THEN rental_sentence(film_info.v)
               ELSE IF WantsCategory(question) THEN category_sentence(film_info.v)
               ELSE sa_result.value.v)
        /\ ~(WantsRating(question) \/ WantsRental(question) \/ WantsCategory(question))
              => sa_result.value.v \in SummaryTexts
        /\ (WantsRating(question) \/ WantsRental(question) \/ WantsCategory(question))
              => sa_result.value.v \notin SummaryTexts

\* A question holding keywords of all three kinds, in capitals too, answered
\* with the rating sentence only.
C10_SeveralKinds ==
    /\ ProcessDone
    /\ Mentions(question, kw_rated)
    /\ ~Mentions(question, kw_rating)
    /\ WantsRental(question)
    /\ WantsCategory(question)
    /\ film_info.some
    /\ sa_result = Returned(Some(rating_sentence(film_info.v)))

\* The readings of "no capitalized word": no uppercase letter at all, and no
\* word that starts with an uppercase letter.
NoUppercase(q) == \A i \in 1..Len(q) : q[i] \notin Upper
NoCapitalizedWord(q) ==
    \A i \in 1..Len(q) :
        (q[i] \in Upper) => (i > 1 /\ ~IsSpace(q[i - 1]))
NoFilmKeyword(q) == ~Mentions(q, kw_film) /\ ~Mentions(q, kw_movie)
NoDoubleQuote(q) == \A i \in 1..Len(q) : q[i] # DQ

TitleFromRule(rules) ==
    /\ ExtractionDone
    /\ film_title.some
    /\ consulted # <<>>
    /\ consulted[Len(consulted)] \in rules

\* The words i..j of the question, each without its trailing punctuation,
\* joined by one space.
CleanWords(q, i, j) == Join([k \in 1..(j - i + 1) |-> word_clean(Split(q)[i + k - 1])])
ConsecutiveWords(q) ==
    {CleanWords(q, i, j) : i \in 1..Len(Split(q)), j \in 1..Len(Split(q))}

\* C27: a title of the leading-run rule or of the run-anywhere rule is made
\* of consecutive words of the question, each without its trailing
\* punctuation, none left out in between.
C27_RunIsConsecutive ==
    TitleFromRule({"leading", "anywhere"}) => film_title.v \in ConsecutiveWords(question)

\* The run-anywhere rule gave a title that leaves words of the question out.
C27_RunWithGap ==
    /\ TitleFromRule({"anywhere"})
    /\ film_title.v \notin ConsecutiveWords(question)
    /\ film_title = anywhere_run(question)

\* A word of the question that starts with an uppercase letter and, without
\* its trailing punctuation and in lower case, is no stop word of rule 4.
UppercaseWordOutside(q) ==
    \E i \in 1..Len(Split(q)) :
        LET w == Split(q)[i]
        IN  /\ w # <<>>
            /\ w[1] \in Upper
            /\ ToLower(word_clean(w)) \notin skip_words_anywhere
Consulted(rule) == \E k \in 1..Len(consulted) : consulted[k] = rule

\* C30: for a question without quoted text and without a match of the
\* film/movie pattern the extraction finds no title exactly when no word
\* starts with an uppercase letter outside the stop words of rule 4, and
\* the single-token rule, once consulted, finds nothing.
C30_FailsIffNoUppercaseWord ==
    (ExtractionDone /\ ~quoted_match(question).some /\ ~film_pattern(question).some)
       => /\ ~Truthy(film_title) <=> ~UppercaseWordOutside(question)
          /\ Consulted("single") => (single_token(question) = None /\ ~Truthy(film_title))

\* The single-token rule was consulted for a question that holds an
\* uppercase stop word, and found nothing.
C30_SingleTokenConsulted ==
    /\ ExtractionDone
    /\ Consulted("single")
    /\ ~Truthy(film_title)
    /\ ~NoUppercase(question)
    /\ ~quoted_match(question).some

(***************************************************************************)
(* Properties of the ask stream (SpecAsk).                                 *)
(***************************************************************************)
\* The strings a chunk of the collaborator carries: its own, those of the
\* attributes of its items and choices, and the str() of those values.
AttrTexts(a) == IF a.has THEN {StrOf(a)} ELSE {}
TextsOfItem(item) ==
    {item.s} \cup AttrTexts(item.content) \cup AttrTexts(item.text) \cup AttrTexts(item.value)
TextsOfChoice(c) ==
    (IF c.delta.has THEN AttrTexts(c.delta.content) ELSE {}) \cup AttrTexts(c.text)
TextsOf(chunk) ==
    {chunk.s} \cup AttrTexts(chunk.content) \cup AttrTexts(chunk.value) \cup AttrTexts(chunk.text)
    \cup UNION {TextsOfItem(chunk.items[i]) : i \in 1..Len(chunk.items)}
    \cup UNION {TextsOfChoice(chunk.choices.elems[i]) : i \in 1..Len(chunk.choices.elems)}
IsStreamApology(text) ==
    \E message \in StreamErrors : text = sorry_prefix \o message

dvd_prefix == <<"d", "v", "d", "_">>
HasDvdPrefix(token) == Len(token) >= Len(dvd_prefix) /\ SubSeq(token, 1, Len(dvd_prefix)) = dvd_prefix
CarriesBearerToken == authorization.present /\ ToLower(authorization.scheme) = scheme_bearer
RentalsCreated == rentals \ rentals_before

FirstYear == 1901
LastYear == 2155
OutOfRange(v) == v.some /\ ~(FirstYear <= v.v /\ v.v <= LastYear)
BoundaryYear(v) == v.some /\ v.v \in {FirstYear, LastYear}
FilmDone == fm_pc = "done"

\* C20: a create or an update with a release_year outside 1901..2155 is
\* rejected with a validation error and leaves the stored films as they
\* were; with 1901 or 2155 and otherwise valid fields it is not rejected by
\* validation, and the film it creates or updates holds the year given.
C20_YearRangeEnforced ==
    /\ (FilmDone /\ OutOfRange(film_year))
          => /\ film_status = 422
             /\ films = films_before
    /\ (FilmDone /\ BoundaryYear(film_year) /\ fields_valid)
          => /\ film_status # 422
             /\ film_status = 201
                   => /\ Len(films) = Len(films_before) + 1
                      /\ films[Len(films)] = film_year
             /\ film_status = 200 => films[film_target] = film_year

\* A film created with 2155 was updated to 1901, and a further update of it
\* to 1900 was rejected.
C20_BoundariesThenRejected ==
    /\ FilmDone
    /\ film_served = 2
    /\ film_op = "update"
    /\ film_year = Some(1900)
    /\ film_status = 422
    /\ films = <<Some(FirstYear)>>

C22_OnlyRentalsOfCustomer ==
    (cr_op = "list" /\ cr_status = 200)
       => /\ \A i \in 1..Len(cr_body) : cr_body[i].customer_id = cr_customer
          /\ Len(cr_body) <= cr_limit

\* The list of customer 0 holds a rental of another customer.
C22_ZeroListsEverybody ==
    /\ cr_op = "list"
    /\ cr_customer = 0
    /\ cr_body # <<>>
    /\ cr_body[1].customer_id # 0

(***************************************************************************)
(* Properties of the film summary (SpecSummary).                           *)
(***************************************************************************)
\* C23: for a film that exists get_film_summary returns a title, a rating
\* and a boolean recommended and does not raise; the rating is the rating
\* of the film when it has one; when the call or the parsing fails the
\* result is the title of the film, its rating or "N/A", and FALSE.
C23_SummaryAlwaysReturned ==
    (fs_pc = "done" /\ fs_film.found)
       => /\ fs_result.kind = "returned"
          /\ fs_result.title.t # "absent"
          /\ fs_result.rating.t # "absent"
          /\ fs_result.recommended \in BOOLEAN
          /\ fs_film.rating # "" => fs_result.rating = JStr(fs_film.rating)
          /\ fs_failed
                => /\ fs_result.title = JStr(fs_film.title)
                   /\ fs_result.rating
                         = JStr(IF fs_film.rating # "" THEN fs_film.rating ELSE not_available)
                   /\ fs_result.recommended = FALSE

\* The reply names another rating than the film has and recommends it.
C23_ReplyRatingIgnored ==
    /\ fs_pc = "done"
    /\ fs_film.rating = "PG-13"
    /\ fs_reply.rating = JStr("R")
    /\ fs_result.rating = JStr("PG-13")
    /\ fs_result.recommended
    /\ ~fs_failed

(***************************************************************************)
(* Properties of get_default_kernel (SpecKernel).                          *)
(***************************************************************************)
CallDone(c) == dk_pc[c] = "done"

\* C26: once a call has returned a kernel that has a service, every call
\* that begins later returns that instance; a call that finds a cached
\* kernel without services does not return it but a kernel made after.
C26_SameInstanceOnceServiced ==
    \A c \in Calls :
        CallDone(c)
           => /\ \A k \in dk_seen[c] : dk_returned[c] = k
              /\ (dk_cached[c] # NoKernel /\ dk_cached[c] \notin dk_services)
                    => dk_returned[c] # dk_cached[c]

\* A call that began after a kernel with a service was returned has
\* returned another kernel.
C26_LaterCallOtherInstance ==
    \E c \in Calls :
        /\ CallDone(c)
        /\ \E k \in dk_seen[c] : dk_returned[c] # k
        /\ dk_returned[c] \in dk_services

(***************************************************************************)
(* Properties of the tracker (SpecTracker).                                *)
(***************************************************************************)
Delivered == tk_message # NoDelivery
ControlPrefixes == {task_completed, conversation_complete, handoff_prefix}
IsControlText(text) == \E p \in ControlPrefixes : StartsWith(Strip(text), p)
NotAnAnswer ==
    \/ tk_message.role # "assistant"
    \/ Strip(tk_text) = <<>>
    \/ IsControlText(tk_text)

\* C28: a response that is set is not changed by a later callback;
\* response_received, should_stop and a non-empty last_agent_response are
\* all true or all false; a message that is not of the assistant, is blank
\* or starts with a control text is not stored, and the first other one is.
C28_FirstResponseKept ==
    /\ Truthy(tk_before.last_agent_response)
          => tk_tracker.last_agent_response = tk_before.last_agent_response
    /\ tk_tracker.response_received = Truthy(tk_tracker.last_agent_response)
    /\ tk_tracker.should_stop = Truthy(tk_tracker.last_agent_response)
    /\ tk_tracker.last_agent_response.some => Truthy(tk_tracker.last_agent_response)
    /\ (Delivered /\ NotAnAnswer)
          => tk_tracker.last_agent_response = tk_before.last_agent_response
    /\ Truthy(tk_tracker.last_agent_response)
          => /\ Strip(tk_tracker.last_agent_response.v) = tk_tracker.last_agent_response.v
             /\ ~IsControlText(tk_tracker.last_agent_response.v)

\* A second answer of an agent arrived after the first was stored.
C28_SecondAnswerIgnored ==
    /\ Delivered
    /\ ~NotAnAnswer
    /\ Truthy(tk_before.last_agent_response)
    /\ tk_tracker.last_agent_response # Some(Strip(tk_text))
    /\ tk_tracker.last_agent # tk_before.last_agent

(***************************************************************************)
(* Properties of two calls of SearchAgent.process (SpecTwice).             *)
(***************************************************************************)
BothReturned ==
    /\ invocation = 2
    /\ sa_pc = "done"
    /\ first_result.kind = "return"
    /\ sa_result.kind = "return"

\* C15: two calls of the film search handler with the same question on an
\* unchanged catalog return the same answer text, whatever the intent of
\* the question and however many rows match the extracted title.
C15_SameAnswerTwice ==
    BothReturned => sa_result.value = first_result.value

\* The rental question about Alien answered with the rate of Alien by one
\* call and with the rate of Aliens by the other: both rows match the title.
C15_OtherRowSecondTime ==
    /\ BothReturned
    /\ WantsRental(question)
    /\ ~WantsRating(question)
    /\ Cardinality(TitleMatches(film_title.v)) > 1
    /\ first_result.value.some
    /\ sa_result.value.some
    /\ first_result.value # sa_result.value

(***************************************************************************)
(* Properties of concurrent requests (SpecShared).                         *)
(***************************************************************************)
\* C16: no object is written by one request and read or written by
\* another: neither the kernel instance, nor the functions registered in a
\* kernel, nor an agent tracker.
C16_NoSharedMutableState ==
    \A a \in accesses : \A b \in accesses :
        (a.loc = b.loc /\ a.req # b.req)
            => (a.kind = "read" /\ b.kind = "read")

\* A request found in its kernel the function another request had added.
C16_FunctionOfAnotherRequest ==
    \E r \in Requests : \E o \in Requests \ {r} :
        /\ req_pc[r] = "done"
        /\ req_kernel[r] # NoKernel
        /\ Access(plugins_of(req_kernel[r]), o, "write") \in accesses
        /\ Access(plugins_of(req_kernel[r]), r, "read") \in accesses
        /\ Access(plugins_of(req_kernel[r]), r, "write") \notin accesses

(***************************************************************************)
(* Properties of HandoffService.process_question (Spec).                   *)
(***************************************************************************)
RequestDone == pc = "done"
PairReturned == RequestDone /\ result.kind = "return"

\* The film handler extracted a title, asked the catalog once and found no
\* row.
LookupMissed ==
    /\ sa_pc = "done"
    /\ Truthy(film_title)
    /\ lookups = 1
    /\ ~film_info.some
    /\ sa_result = Returned(None)

\* The answer of the pair is the response the tracker holds.
AnswerFromTracker ==
    /\ PairReturned
    /\ Truthy(agent_tracker.last_agent_response)
    /\ result.answer = Strip(agent_tracker.last_agent_response.v)

\* C1: when the answer of the returned pair is the text of a message of a
\* member and the label of the pair names a member, the label names the
\* member whose message it is, never the other one.
C1_LabelNamesAuthor ==
    (AnswerFromTracker /\ answer_author \in Members /\ result.agent \in Members)
        => result.agent = answer_author

\* C1, the case that fails: the text is the film handler's and the label is
\* the general handler's.
C1_TextOfTheOther ==
    /\ AnswerFromTracker
    /\ answer_author = SearchAgentName
    /\ result.agent = LLMAgentName

\* C2: when the title was extracted and the catalog held no row for it, the
\* pair returned carries the label of the general handler, LLMAgent.
C2_MissLabelledGeneral ==
    (PairReturned /\ LookupMissed) => result.agent = LLMAgentName

\* C2, the case that fails: after the miss the wait times out before any
\* answer, and the pair is labelled SearchAgent.
C2_MissLabelledFilm ==
    /\ PairReturned
    /\ LookupMissed
    /\ failure = "timeout"
    /\ result = Pair(SearchAgentName, timeout_apology)

\* C3: process_question ends with a pair and never with an exception,
\* whichever step fails.
C3_NeverPropagates == RequestDone => result.kind = "return"

\* C3, the case that fails: building the orchestration raised.
C3_CreatePropagated == RequestDone /\ failure = "create" /\ result = Propagated

\* C4: when a handler or the orchestration raised and the tracker holds no
\* response, the pair is an apology labelled LLMAgent.
C4_FailureLabelledGeneral ==
    (RequestDone /\ failure \in {"exception", "handler"}
                 /\ ~Truthy(agent_tracker.last_agent_response))
        => /\ result.kind = "return"
           /\ result.answer = error_apology
           /\ result.agent = LLMAgentName

\* C4, the case that fails: SearchAgent.process raised, nothing was
\* captured, and the apology is labelled SearchAgent.
C4_ApologyLabelledFilm ==
    /\ RequestDone
    /\ failure = "handler"
    /\ ~Truthy(agent_tracker.last_agent_response)
    /\ result = Pair(SearchAgentName, error_apology)

\* C5: the label of every pair returned is SearchAgent or LLMAgent, also
\* when messages without a name reached the callback.
C5_LabelIsMember == PairReturned => result.agent \in Members

\* C5, the case that fails: the last message had no name and the label is
\* "Unknown".
C5_LabelUnknown == PairReturned /\ callbacks > 0 /\ result.agent = Unknown

\* The words every apology of the service and of the agents starts with.
apology_opening == <<"I", "'", "m", " ", "s", "o", "r", "r", "y">>
IsApology(text) == StartsWithAt(text, 1, apology_opening)

\* C17: when a wait of the request times out, the request has ended, no
\* exception has left it and its answer is an apology.
C17_TimeoutEndsWithApology ==
    failure = "timeout" =>
        /\ PairReturned
        /\ IsApology(result.answer)

\* C17 amended: when a wait of the request times out, the request has ended
\* with a pair and a stopped runtime; the answer of the pair is the response
\* captured before the timeout, stripped, and the timeout apology when no
\* response was captured.
C17_TimeoutEndsWithCapturedOrApology ==
    failure = "timeout" =>
        /\ PairReturned
        /\ runtime = "stopped"
        /\ Truthy(agent_tracker.last_agent_response)
              => result.answer = Strip(agent_tracker.last_agent_response.v)
        /\ ~Truthy(agent_tracker.last_agent_response)
              => result.answer = timeout_apology

\* A timeout after the answer of an agent was captured: the request ends
\* with that answer, which is no apology.
C17_TimedOutAfterAnswer ==
    /\ PairReturned
    /\ failure = "timeout"
    /\ Truthy(agent_tracker.last_agent_response)
    /\ result.answer = Strip(agent_tracker.last_agent_response.v)
    /\ ~IsApology(result.answer)

\* C24: within a request control never passes from LLMAgent back to
\* SearchAgent, so it passes from SearchAgent to LLMAgent at most once.
C24_NeverBackToSearchAgent ==
    [][(EngineRunning /\ active = LLMAgentName) => active' = LLMAgentName]_vars

\* LLMAgent has answered and SearchAgent holds the turn again.
C24_BackAtSearchAgent ==
    /\ EngineRunning
    /\ active = SearchAgentName
    /\ answer_author = LLMAgentName
    /\ <<LLMAgentName, SearchAgentName>> \in handoffs

\* C25: the first call of the human response function returns the empty
\* message, every later call returns "__TERMINATE_CONVERSATION__", and each
\* call, and nothing else, adds one to human_response_calls.
C25_HumanInputOnce ==
    [][LET calls == agent_tracker.human_response_calls
           called == turn = "human" /\ turn' = "agent"
       IN  /\ called
                 => /\ agent_tracker'.human_response_calls = calls + 1
                    /\ human_message' = Some(IF calls = 0 THEN <<>> ELSE terminate_conversation)
           /\ ~called
                 => /\ agent_tracker'.human_response_calls = calls
                    /\ human_message' = human_message]_vars

\* The function was called three times.
C25_CalledThreeTimes ==
    /\ agent_tracker.human_response_calls = 3
    /\ human_message = Some(terminate_conversation)
    /\ EngineRunning

\* C29: the answer of every pair process_question returns, after a
\* completion, a timeout, an error of the orchestration or an error caught
\* by the outer handler, is a text that is not empty and not only blanks.
C29_AnswerNeverBlank ==
    PairReturned => Strip(result.answer) # <<>>

\* The orchestration completed without an answer in the tracker and with a
\* final value that holds no text.
C29_DefaultAnswer ==
    /\ PairReturned
    /\ ~Truthy(agent_tracker.last_agent_response)
    /\ final_value.kind # "none"
    /\ Strip(extract_answer(final_value)) = <<>>
    /\ result.answer = no_response_apology

(***************************************************************************)
(* Properties of the router of the handoff endpoint (SpecRoute).           *)
(***************************************************************************)
RouteDone == rt_pc = "done"
FilmHandlerRan == \E i \in 1..Len(executed) : executed[i] = SearchAgentName
RentalIntent(q) == WantsRental(q) /\ ~WantsRating(q)

\* The rates of the catalog as they are to be shown.
ShownRate(cents) ==
    IF cents = 299 THEN <<"2", ".", "9", "9">>
    ELSE IF cents = 450 THEN <<"4", ".", "5", "0">>
    ELSE <<>>

C12_TitleCategoryRate ==
    (RouteDone /\ FilmHandlerRan /\ film_info.some /\ sa_result.kind = "return"
              /\ Mentions(question, kw_film) /\ RentalIntent(question))
        => /\ route_result.agent = SearchAgentName
           /\ Contains(route_result.answer, film_info.v.title)
           /\ Contains(route_result.answer, film_info.v.category)
           /\ Contains(route_result.answer, ShownRate(film_info.v.rental_rate))

\* C12, the case that fails: the question of test_handoff_search_agent is
\* answered with the rental sentence, which does not hold the category that
\* the sentence of the plugin holds.
C12_CategoryMissing ==
    /\ RouteDone
    /\ question = <<"W", "h", "a", "t", " ", "i", "s", " ", "t", "h", "e", " ", "r", "e", "n", "t", "a", "l", " ", "r", "a", "t", "e", " ", "f", "o", "r", " ", "t", "h", "e", " ", "f", "i", "l", "m", " ", "A", "l", "i", "e", "n", "?">>
    /\ film_info.some
    /\ route_result = Pair(SearchAgentName, <<"A", "l", "i", "e", "n", " ", "r", "e", "n", "t", "s", " ", "f", "o", "r", " ", "$", "2", ".", "9", "9", ".">>)
    /\ ~Contains(route_result.answer, film_info.v.category)
    /\ Contains(search_film_sentence(film_info.v), film_info.v.category)

WorldCupQuestion ==
    <<"W", "h", "o", " ", "w", "o", "n", " ", "t", "h", "e", " ", "W", "o", "r", "l", "d", " ", "C", "u", "p", " ", "i", "n", " ", "2", "0", "2", "2", "?">>

LLMDone == llm_pc = "done"

\* C6: LLMAgent.process always returns a string, never None and never an
\* exception, for every shape of reply (a list, one object, nested choices,
\* a response without value); when the collaborator call fails, or adding
\* the prompt function fails, the string is an apology that carries the
\* error.
C6_AlwaysReturnsString ==
    LLMDone =>
        /\ llm_result.kind = "return"
        /\ llm_result.value.some
        /\ llm_reply.raised => llm_result.value.v = sorry_prefix \o error_invoke
        /\ answer_function \notin kernel_functions
               => llm_result.value.v = sorry_prefix \o error_add_function

\* C6, the case: the collaborator call has failed and the call has ended.
C6_CollaboratorFailed == LLMDone /\ llm_reply.raised

====
